---------------------------- MODULE Spec2Model ----------------------------
(***************************************************************************)
(* Decision gates of og-system:                                            *)
(*   - duplicate_checker.check_submission      (agent Z)                   *)
(*   - message_router.route_message            (agent EM)                  *)
(*   - hard_filters.apply_hard_filters         (agent Rick)                *)
(*   - anti_cannibalization.check_cannibalization (agent Rick)             *)
(*                                                                         *)
(* Conventions.                                                            *)
(*   A name (client, vendor, company) is a sequence of one-character       *)
(*   strings, so that upper()/lower()/strip() are computed, not assumed.   *)
(*   An ISO date string "YYYY-MM-DD" is the tuple <<Y, M, D>>; the empty   *)
(*   tuple is a missing/empty date, any other tuple that is no calendar    *)
(*   date is an unparseable string.                                        *)
(*   A dict key that is absent is the value Absent (identifiers) or        *)
(*   AbsentName (names); dict.get(key, default) is modelled by Get*.       *)
(*   An instant is a number of minutes; an ISO timestamp string is a       *)
(*   record [kind, t]: "aware" (with UTC offset), "naive" (without),       *)
(*   "garbage" (no ISO timestamp) or "absent" (no key, or empty).          *)
(*   A call that raises is recorded with outcome "raised".                 *)
(***************************************************************************)
EXTENDS Integers, Sequences, FiniteSets, TLC

VARIABLES
    \* --- agent Z: duplicate_checker ---
    submission_history,   \* the caller's submission history list
    dns_list,             \* the caller's master do-not-submit list
    dup_call,             \* the last check_submission call and its outcome
    callers,              \* callers of check_submission that take no turns
    z_scoring_log,        \* agents/z/.../scoring/scoring_log.jsonl
    \* --- agent EM: message_router ---
    agent_states,         \* SystemState.agent_states
    data_freshness,       \* SystemState.data_freshness["Z_data_age_minutes"]
    now,                  \* the wall clock, in minutes
    dep_graph,            \* routing_rules.json: keys of "dependency_graph"
    route_call,           \* the last route_message call and its outcome
    routing_log,          \* memory/routing-log.jsonl
    agent_feed,           \* memory/agent-feed.jsonl
    \* --- agent Rick: hard_filters and anti_cannibalization ---
    rick_history,         \* submission / application history given to Rick's gates
    rick_dns,             \* DNS list given to apply_hard_filters
    rick_call,            \* the last call of one of Rick's gates and its outcome
    rick_scoring_log      \* agents/rick/.../scoring/scoring_log.jsonl

dupVars == <<submission_history, dns_list, dup_call, callers, z_scoring_log>>
routeVars == <<agent_states, data_freshness, now, dep_graph, route_call, routing_log,
               agent_feed>>
rickVars == <<rick_history, rick_dns, rick_call, rick_scoring_log>>
vars == <<submission_history, dns_list, dup_call, callers, z_scoring_log,
          agent_states, data_freshness, now, dep_graph, route_call, routing_log,
          agent_feed,
          rick_history, rick_dns, rick_call, rick_scoring_log>>

-----------------------------------------------------------------------------
(* Python values *)

\* An absent dict key holding an identifier.
Absent == "<absent>"

\* An absent dict key holding a name.
AbsentName == <<"<absent>">>

\* dict.get(key, "") for an identifier.
GetId(v) == IF v = Absent THEN "" ELSE v

\* dict.get(key, "") for a name.
GetName(v) == IF v = AbsentName THEN <<>> ELSE v

\* str.upper() on one character.
CharUpper(c) ==
    CASE c = "a" -> "A"
      [] c = "c" -> "C"
      [] c = "g" -> "G"
      [] c = "t" -> "T"
      [] c = "i" -> "I"
      [] c = "n" -> "N"
      [] c = "o" -> "O"
      [] c = "h" -> "H"
      [] c = "b" -> "B"
      [] c = "j" -> "J"
      [] c = "v" -> "V"
      [] OTHER -> c

\* str.lower() on one character.
CharLower(c) ==
    CASE c = "A" -> "a"
      [] c = "C" -> "c"
      [] c = "G" -> "g"
      [] c = "T" -> "t"
      [] c = "I" -> "i"
      [] c = "N" -> "n"
      [] c = "O" -> "o"
      [] c = "H" -> "h"
      [] c = "B" -> "b"
      [] c = "J" -> "j"
      [] c = "V" -> "v"
      [] OTHER -> c

\* str.upper()
Upper(s) == [k \in 1..Len(s) |-> CharUpper(s[k])]

\* str.lower()
Lower(s) == [k \in 1..Len(s) |-> CharLower(s[k])]

RECURSIVE LStrip(_)
LStrip(s) == IF s # <<>> /\ Head(s) = " " THEN LStrip(Tail(s)) ELSE s

RECURSIVE RStrip(_)
RStrip(s) ==
    IF s # <<>> /\ s[Len(s)] = " " THEN RStrip(SubSeq(s, 1, Len(s) - 1)) ELSE s

\* str.strip()
Strip(s) == RStrip(LStrip(s))

\* x.upper().strip(), the normalisation of duplicate_checker
UpperStrip(s) == Strip(Upper(s))

-----------------------------------------------------------------------------
(* datetime.date *)

IsLeap(y) == (y % 4 = 0) /\ ((y % 100 # 0) \/ (y % 400 = 0))

DaysInMonth(y, m) ==
    CASE m \in {1, 3, 5, 7, 8, 10, 12} -> 31
      [] m \in {4, 6, 9, 11} -> 30
      [] OTHER -> IF IsLeap(y) THEN 29 ELSE 28

RECURSIVE DaysBeforeMonth(_, _)
DaysBeforeMonth(y, m) ==
    IF m <= 1 THEN 0 ELSE DaysBeforeMonth(y, m - 1) + DaysInMonth(y, m - 1)

DaysBeforeYear(y) ==
    LET p == y - 1 IN 365 * p + (p \div 4) - (p \div 100) + (p \div 400)

\* Whether date.fromisoformat accepts the string.
IsIsoDate(s) ==
    /\ Len(s) = 3
    /\ s[1] >= 1
    /\ s[2] \in 1..12
    /\ s[3] >= 1
    /\ s[3] <= DaysInMonth(s[1], s[2])

\* date.fromisoformat(s).toordinal(), for a string it accepts.
DateOrdinal(s) == DaysBeforeYear(s[1]) + DaysBeforeMonth(s[1], s[2]) + s[3]


-----------------------------------------------------------------------------
(* agents/z/workspace/skills/scoring/duplicate_checker.py *)

\* Rule 1 window: timedelta(days=90).
NinetyDays == 90

\* Rule 3 window: timedelta(days=30).
ThirtyDays == 30

\* end_client = request.get("end_client", "").upper().strip()
ReqEndClient(request) == UpperStrip(GetName(request.end_client))

\* vendor_name = request.get("vendor_name", "").upper().strip()
ReqVendorName(request) == UpperStrip(GetName(request.vendor_name))

\* job_posting_id = request.get("job_posting_id", "")
ReqJobPostingId(request) == GetId(request.job_posting_id)

\* record.get("end_client", "").upper().strip()
RecordClient(record) == UpperStrip(GetName(record.end_client))

\* record.get("vendor_name", "").upper().strip()
RecordVendor(record) == UpperStrip(GetName(record.vendor_name))

\* One entry of rules_triggered.  Rule 5 entries carry no conflicting record.
NoRecord ==
    [consultant_id |-> Absent, end_client |-> AbsentName, vendor_name |-> AbsentName,
     job_posting_id |-> Absent, submission_date |-> <<>>]

RuleEntry(rule, severity, description, record) ==
    [rule |-> rule, severity |-> severity, description |-> description,
     conflicting_record |-> record]

\* One entry per record of `records`, in their order.
RuleEntries(rule, severity, description, records) ==
    [k \in 1..Len(records) |-> RuleEntry(rule, severity, description, records[k])]

\* Rule 5, the request's own do_not_submit list: an entry is a company string
\* (vendor "") or a dict; it fires when the company is the end client and the
\* entry is company-wide or names the request's vendor.
ConsultantDnsFires(request, dns_entry) ==
    /\ UpperStrip(GetName(dns_entry.company)) = ReqEndClient(request)
    /\ ~ (/\ GetName(dns_entry.vendor) # <<>>
          /\ UpperStrip(GetName(dns_entry.vendor)) # ReqVendorName(request))

\* The master-list test as it would be if every entry were company-wide.
MasterDnsFiresAnyVendor(request, entry) ==
    /\ entry.consultant_id = request.consultant_id
    /\ UpperStrip(GetName(entry.company)) = ReqEndClient(request)

\* Rule 5, the master DNS list (skipped when dns_list is None or empty).
MasterDnsFires(request, entry) ==
    /\ entry.consultant_id = request.consultant_id
    /\ UpperStrip(GetName(entry.company)) = ReqEndClient(request)
    /\ ~ (/\ UpperStrip(GetName(entry.vendor)) # <<>>
          /\ UpperStrip(GetName(entry.vendor)) # ReqVendorName(request))

Rule5Entries(request, dns) ==
    LET own == SelectSeq(request.do_not_submit,
                         LAMBDA e : ConsultantDnsFires(request, e))
        master == SelectSeq(dns, LAMBDA e : MasterDnsFires(request, e))
    IN  [k \in 1..Len(own) |->
            RuleEntry(5, "BLOCK", "Consultant on do-not-submit for this client", NoRecord)]
        \o
        [k \in 1..Len(master) |->
            RuleEntry(5, "BLOCK", "Consultant on master do-not-submit list", NoRecord)]

\* Rule 2 as it would be if it also asked for the same end client.
Rule2FiresSameClient(request, record) ==
    /\ record.consultant_id = request.consultant_id
    /\ record.job_posting_id = ReqJobPostingId(request)
    /\ RecordClient(record) = ReqEndClient(request)

\* Rule 2: same consultant + same job posting id.
Rule2Fires(request, record) ==
    /\ record.consultant_id = request.consultant_id
    /\ record.job_posting_id = ReqJobPostingId(request)

Rule2Records(request, history) ==
    SelectSeq(history, LAMBDA r : Rule2Fires(request, r))

\* Rule 1 as it would be if it left records via another vendor to rule 3.
Rule1FiresSameVendor(request, record) ==
    /\ record.consultant_id = request.consultant_id
    /\ RecordClient(record) = ReqEndClient(request)
    /\ ~ (RecordClient(record) = <<>> \/ ReqEndClient(request) = <<>>)
    /\ record.submission_date # <<>>
    /\ DateOrdinal(record.submission_date)
          >= DateOrdinal(request.submission_date) - NinetyDays
    /\ record.job_posting_id # ReqJobPostingId(request)
    /\ RecordVendor(record) = ReqVendorName(request)

\* Rule 1 as it would be with a window that excludes the 90th day.
Rule1FiresStrict(request, record) ==
    /\ record.consultant_id = request.consultant_id
    /\ RecordClient(record) = ReqEndClient(request)
    /\ ~ (RecordClient(record) = <<>> \/ ReqEndClient(request) = <<>>)
    /\ record.submission_date # <<>>
    /\ DateOrdinal(record.submission_date)
          > DateOrdinal(request.submission_date) - NinetyDays
    /\ record.job_posting_id # ReqJobPostingId(request)

\* Rule 1 reads the record's date: same consultant, same known end client.
Rule1ReadsDate(request, record) ==
    /\ record.consultant_id = request.consultant_id
    /\ RecordClient(record) = ReqEndClient(request)
    /\ ~ (RecordClient(record) = <<>> \/ ReqEndClient(request) = <<>>)

\* Rule 1 as it would be with a window that ends at the request's date.
Rule1FiresLookingBack(request, record) ==
    /\ Rule1ReadsDate(request, record)
    /\ record.submission_date # <<>>
    /\ DateOrdinal(record.submission_date)
          >= DateOrdinal(request.submission_date) - NinetyDays
    /\ DateOrdinal(record.submission_date) <= DateOrdinal(request.submission_date)
    /\ record.job_posting_id # ReqJobPostingId(request)

\* Rule 1: the record is dated on or after ninety_days_ago and is not the
\* record rule 2 counts.
Rule1Fires(request, record) ==
    /\ Rule1ReadsDate(request, record)
    /\ record.submission_date # <<>>
    /\ DateOrdinal(record.submission_date)
          >= DateOrdinal(request.submission_date) - NinetyDays
    /\ record.job_posting_id # ReqJobPostingId(request)

Rule1Records(request, history) ==
    SelectSeq(history, LAMBDA r : Rule1Fires(request, r))

\* Rule 3 reads the record's date: same consultant, same known end client,
\* another vendor.
Rule3ReadsDate(request, record) ==
    /\ record.consultant_id = request.consultant_id
    /\ ~ (RecordClient(record) # ReqEndClient(request) \/ RecordClient(record) = <<>>)
    /\ RecordVendor(record) # ReqVendorName(request)

Rule3Fires(request, record) ==
    /\ Rule3ReadsDate(request, record)
    /\ record.submission_date # <<>>
    /\ DateOrdinal(record.submission_date)
          >= DateOrdinal(request.submission_date) - ThirtyDays

Rule3Records(request, history) ==
    SelectSeq(history, LAMBDA r : Rule3Fires(request, r))

\* Rule 4: another consultant on the same job posting via the same vendor.
Rule4Fires(request, record) ==
    /\ record.consultant_id # request.consultant_id
    /\ record.job_posting_id = ReqJobPostingId(request)
    /\ RecordVendor(record) = ReqVendorName(request)

Rule4Records(request, history) ==
    SelectSeq(history, LAMBDA r : Rule4Fires(request, r))

\* The calls of date.fromisoformat that raise ValueError: the request's own
\* date (line 58) and the date of a record read by rule 1 (line 124) or rule 3
\* (line 149).  A missing or empty record date is None and is not parsed.
CheckSubmissionRaises(request, history) ==
    \/ ~ IsIsoDate(request.submission_date)
    \/ \E k \in 1..Len(history) :
          /\ Rule1ReadsDate(request, history[k]) \/ Rule3ReadsDate(request, history[k])
          /\ history[k].submission_date # <<>>
          /\ ~ IsIsoDate(history[k].submission_date)

\* decision = "BLOCK" after a BLOCK entry was appended (rules 5, 2, 1).
BlockDecision(decision, entries) ==
    IF entries # <<>> THEN "BLOCK" ELSE decision

\* The rule-3 assignment as it would be without its guard on ALLOW.
WarnDecisionUnguarded(decision, entries) ==
    IF entries # <<>> THEN "WARN" ELSE decision

\* if decision == "ALLOW": decision = "WARN", after a rule-3 entry was appended.
WarnDecision(decision, entries) ==
    IF entries # <<>> /\ decision = "ALLOW" THEN "WARN" ELSE decision

\* The explanation: which entries of rules_triggered it lists.
Explanation(decision, rules_triggered) ==
    CASE decision = "BLOCK" ->
            [prefix |-> "BLOCKED",
             listed |-> SelectSeq(rules_triggered, LAMBDA e : e.severity = "BLOCK")]
      [] decision = "WARN" ->
            [prefix |-> "WARNING",
             listed |-> SelectSeq(rules_triggered, LAMBDA e : e.severity = "WARN")]
      [] OTHER -> [prefix |-> "No conflicts detected. Submission cleared.",
                   listed |-> <<>>]

\* The dict check_submission builds (lines 61-198), for a call that does not
\* raise.  The rules run in the order 5, 2, 1, 3, 4.
CheckSubmissionResult(request, history, dns) ==
    LET e5 == Rule5Entries(request, dns)
        r2 == Rule2Records(request, history)
        r1 == Rule1Records(request, history)
        r3 == Rule3Records(request, history)
        r4 == Rule4Records(request, history)
        e2 == RuleEntries(2, "BLOCK", "Same consultant + same job posting ID", r2)
        e1 == RuleEntries(1, "BLOCK", "Same consultant + same end client within 90 days", r1)
        e3 == RuleEntries(3, "WARN", "Same consultant + same client + different vendor within 30 days", r3)
        e4 == RuleEntries(4, "LOG", "Different consultant submitted to same role via same vendor", r4)
        d5 == BlockDecision("ALLOW", e5)
        d2 == BlockDecision(d5, e2)
        d1 == BlockDecision(d2, e1)
        d3 == WarnDecision(d1, e3)
        rules_triggered == e5 \o e2 \o e1 \o e3 \o e4
    IN  [decision |-> d3,
         consultant_id |-> request.consultant_id,
         end_client |-> ReqEndClient(request),
         vendor_name |-> ReqVendorName(request),
         job_posting_id |-> ReqJobPostingId(request),
         rules_triggered |-> rules_triggered,
         conflicts |-> r2 \o r1 \o r3,
         explanation |-> Explanation(d3, rules_triggered),
         rules_checked |-> 5]

\* The result slot of a call that raised.
NoResult ==
    [decision |-> "", consultant_id |-> "", end_client |-> <<>>, vendor_name |-> <<>>,
     job_posting_id |-> "", rules_triggered |-> <<>>, conflicts |-> <<>>,
     explanation |-> [prefix |-> "", listed |-> <<>>], rules_checked |-> 0]

\* _log_check: the line appended to scoring_log.jsonl.
LogCheckEntry(result) ==
    [event_type |-> "duplicate_check",
     consultant_id |-> result.consultant_id,
     decision |-> result.decision,
     rules_triggered_count |-> Len(result.rules_triggered),
     end_client |-> result.end_client,
     vendor_name |-> result.vendor_name,
     job_posting_id |-> result.job_posting_id]

\* _log_check as it would be if only cleared submissions were logged.
LogCheckAllowOnly(log, result) ==
    IF result.decision = "ALLOW" THEN Append(log, LogCheckEntry(result)) ELSE log

LogCheck(log, result) == Append(log, LogCheckEntry(result))

-----------------------------------------------------------------------------
(* agents/em/workspace/skills/routing/message_router.py *)

\* agent_is_healthy: an agent is stale after 1800 s = 30 minutes of no activity.
LivenessMinutes == 30

\* Rule 6: the queue depth Rick is held at.
RickQueueThreshold == 30

\* Rule 7: z_data_is_fresh(max_age_minutes=240).
MaxDataAgeMinutes == 240

\* The agents SystemState.__init__ knows.
KnownAgents == {"Z", "Jay", "Rick", "Leroy"}

\* A datetime: timezone-aware or naive, t minutes after the start of the run.
AwareTime(t) == [aware |-> TRUE, t |-> t]

NaiveTime(t) == [aware |-> FALSE, t |-> t]

\* SystemState.__init__ at time t.
InitialAgentStates(t) ==
    [a \in KnownAgents |->
        [state |-> "ACTIVE", last_activity |-> AwareTime(t), queue_depth |-> 0]]

\* envelope.get(key, "UNKNOWN") for "from" and "to".
GetAgent(v) == IF v = Absent THEN "UNKNOWN" ELSE v

\* envelope.get("type", "REQUEST")
GetType(v) == IF v = Absent THEN "REQUEST" ELSE v

\* envelope.get("priority", "NORMAL")
GetPriority(v) == IF v = Absent THEN "NORMAL" ELSE v

\* envelope.get("payload", {}).get("severity", "MEDIUM")
GetSeverity(v) == IF v = Absent THEN "MEDIUM" ELSE v

\* agent.get("state", "UNKNOWN") of agent_states.get(agent_id, {})
AgentState(states, agent_id) ==
    IF agent_id \in DOMAIN states THEN states[agent_id].state ELSE "UNKNOWN"

\* agent.get("last_activity", datetime.now(timezone.utc))
AgentLastActivity(states, agent_id, clock) ==
    IF agent_id \in DOMAIN states THEN states[agent_id].last_activity
    ELSE AwareTime(clock)

\* SystemState.agent_is_healthy: "TypeError" when the aware clock is compared
\* with a naive last_activity, else "healthy" or "unhealthy".
AgentIsHealthy(states, agent_id, clock) ==
    LET last_activity == AgentLastActivity(states, agent_id, clock)
    IN  IF ~ last_activity.aware THEN "TypeError"
        ELSE IF clock - last_activity.t > LivenessMinutes THEN "unhealthy"
        ELSE IF AgentState(states, agent_id) \in {"ERROR", "DEAD"} THEN "unhealthy"
        ELSE "healthy"

\* SystemState.agent_queue_depth
AgentQueueDepth(states, agent_id) ==
    IF agent_id \in DOMAIN states THEN states[agent_id].queue_depth ELSE 0

\* SystemState.z_data_is_fresh
ZDataIsFresh(age, max_age_minutes) == age <= max_age_minutes

\* evaluate_dependency_graph: can_route and the reason.
EvaluateDependencyGraph(from_agent, to_agent, message_type, graph) ==
    IF to_agent \notin graph
    THEN [can_route |-> FALSE, reason |-> <<"Unknown target agent", to_agent>>]
    ELSE IF message_type = "SUBMISSION_REQUEST" /\ to_agent = "Rick"
    THEN [can_route |-> TRUE, reason |-> <<"Rick can accept submission requests", from_agent>>]
    ELSE IF message_type = "SUBMISSION_REQUEST" /\ to_agent = "Leroy"
    THEN [can_route |-> TRUE, reason |-> <<"Leroy can accept approved applications", "">>]
    ELSE [can_route |-> TRUE, reason |-> <<"Dependency check passed", to_agent>>]

\* check_z_safety_gate as it would be if it looked for DEAD only.
CheckZSafetyGateDeadOnly(states) == AgentState(states, "Z") # "DEAD"

\* check_z_safety_gate: can_route.
CheckZSafetyGate(states) == AgentState(states, "Z") \notin {"DEAD", "ERROR"}

\* A routing decision dict; severity, channel and sla are Absent when not set.
Decision(routing_decision, reason, severity, target, channel) ==
    [routing_decision |-> routing_decision, reason |-> reason, severity |-> severity,
     target |-> target, channel |-> channel, sla |-> Absent]

\* A call that raised: which exception.
Raised(exception) ==
    [routing_decision |-> exception, reason |-> <<"raised", exception>>,
     severity |-> Absent, target |-> Absent, channel |-> Absent, sla |-> Absent]

Exceptions == {"TypeError", "KeyError", "ValueError"}

\* Rules 4 to 8 of evaluate_rules.
EvaluateRulesFrom4(envelope, states, age, graph, clock) ==
    LET from_agent == GetAgent(envelope.from)
        to_agent == GetAgent(envelope.to)
        message_type == GetType(envelope.type)
        healthy == AgentIsHealthy(states, to_agent, clock)
        dep == EvaluateDependencyGraph(from_agent, to_agent, message_type, graph)
    IN  IF healthy = "TypeError" THEN Raised("TypeError")
        ELSE IF healthy = "unhealthy"
        THEN IF to_agent \in DOMAIN states
             THEN Decision("ESCALATE_TO_HUMAN", <<"Target agent is not healthy", to_agent>>,
                           "HIGH", "human", Absent)
             ELSE Raised("KeyError")
        ELSE IF ~ dep.can_route
        THEN Decision("HOLD_PENDING_INPUT", dep.reason, Absent, to_agent, Absent)
        ELSE IF to_agent = "Rick" /\ AgentQueueDepth(states, "Rick") > RickQueueThreshold
        THEN Decision("HOLD_PENDING_CAPACITY", <<"Rick queue depth exceeds threshold", "Rick">>,
                      Absent, "Rick", Absent)
        ELSE IF /\ to_agent = "Z"
                /\ message_type = "SUBMISSION_REQUEST"
                /\ ~ ZDataIsFresh(age, MaxDataAgeMinutes)
        THEN Decision("HOLD_PENDING_INPUT", <<"Z data is too old", "Z">>, Absent, "Z", Absent)
        ELSE Decision("ROUTE_IMMEDIATELY", <<"All checks passed", to_agent>>,
                      Absent, to_agent, Absent)

\* Rules 3 to 8 as they would be with the ALERT rule behind the check of the
\* target's health.
EvaluateRulesFrom3HealthFirst(envelope, states, age, graph, clock) ==
    IF /\ GetType(envelope.type) = "ALERT"
       /\ GetSeverity(envelope.severity) \in {"CRITICAL", "HIGH"}
       /\ AgentIsHealthy(states, GetAgent(envelope.to), clock) = "healthy"
    THEN Decision("ESCALATE_TO_HUMAN", <<"severity alert", GetAgent(envelope.from)>>,
                  GetSeverity(envelope.severity), "human", "#alerts")
    ELSE EvaluateRulesFrom4(envelope, states, age, graph, clock)

\* Rule 3 of evaluate_rules, then rules 4 to 8.
EvaluateRulesFrom3(envelope, states, age, graph, clock) ==
    IF /\ GetType(envelope.type) = "ALERT"
       /\ GetSeverity(envelope.severity) \in {"CRITICAL", "HIGH"}
    THEN Decision("ESCALATE_TO_HUMAN", <<"severity alert", GetAgent(envelope.from)>>,
                  GetSeverity(envelope.severity), "human", "#alerts")
    ELSE EvaluateRulesFrom4(envelope, states, age, graph, clock)

\* Rules 2 to 8 as they would be with the ALERT rule ahead of the URGENT rule.
EvaluateRulesAlertFirst(envelope, states, age, graph, clock) ==
    LET to_agent == GetAgent(envelope.to)
        healthy == AgentIsHealthy(states, to_agent, clock)
    IN  IF /\ GetType(envelope.type) = "ALERT"
           /\ GetSeverity(envelope.severity) \in {"CRITICAL", "HIGH"}
        THEN Decision("ESCALATE_TO_HUMAN", <<"severity alert", GetAgent(envelope.from)>>,
                      GetSeverity(envelope.severity), "human", "#alerts")
        ELSE IF GetPriority(envelope.priority) = "URGENT"
        THEN IF healthy = "TypeError" THEN Raised("TypeError")
             ELSE IF healthy = "healthy"
             THEN Decision("ROUTE_IMMEDIATELY", <<"URGENT priority message and target is healthy", to_agent>>,
                           Absent, to_agent, Absent)
             ELSE Decision("ESCALATE_TO_HUMAN", <<"URGENT message but target is not healthy", to_agent>>,
                           "CRITICAL", "human", Absent)
        ELSE EvaluateRulesFrom4(envelope, states, age, graph, clock)

\* Rule 2 of evaluate_rules, then rules 3 to 8.
EvaluateRulesFrom2(envelope, states, age, graph, clock) ==
    LET to_agent == GetAgent(envelope.to)
        healthy == AgentIsHealthy(states, to_agent, clock)
    IN  IF GetPriority(envelope.priority) = "URGENT"
        THEN IF healthy = "TypeError" THEN Raised("TypeError")
             ELSE IF healthy = "healthy"
             THEN Decision("ROUTE_IMMEDIATELY", <<"URGENT priority message and target is healthy", to_agent>>,
                           Absent, to_agent, Absent)
             ELSE Decision("ESCALATE_TO_HUMAN", <<"URGENT message but target is not healthy", to_agent>>,
                           "CRITICAL", "human", Absent)
        ELSE EvaluateRulesFrom3(envelope, states, age, graph, clock)

\* evaluate_rules: rule 1 (the Z safety gate), then rules 2 to 8.
EvaluateRules(envelope, states, age, graph, clock) ==
    IF GetType(envelope.type) = "SUBMISSION_REQUEST" /\ ~ CheckZSafetyGate(states)
    THEN Decision("ESCALATE_TO_HUMAN", <<"Z is down. Cannot route submissions", AgentState(states, "Z")>>,
                  "CRITICAL", "human", Absent)
    ELSE EvaluateRulesFrom2(envelope, states, age, graph, clock)

\* route_message lines 240-247: the SLA of a ROUTE_IMMEDIATELY decision.
Sla(decision, envelope) ==
    IF decision.routing_decision = "ROUTE_IMMEDIATELY"
    THEN IF envelope.priority = "URGENT" THEN "Response within 15 minutes"
         ELSE IF envelope.priority = "HIGH" THEN "Response within 30 minutes"
         ELSE "Response within 4 hours"
    ELSE Absent

\* datetime.fromisoformat(envelope.get("timestamp", now().isoformat())):
\* the envelope's timestamp string is absent, an aware or a naive ISO datetime,
\* or no ISO datetime at all.
FromIsoformat(timestamp, clock) ==
    CASE timestamp.kind = "absent" -> [ok |-> TRUE, value |-> AwareTime(clock)]
      [] timestamp.kind = "aware" -> [ok |-> TRUE, value |-> AwareTime(timestamp.t)]
      [] timestamp.kind = "naive" -> [ok |-> TRUE, value |-> NaiveTime(timestamp.t)]
      [] OTHER -> [ok |-> FALSE, value |-> NaiveTime(0)]

\* SystemState.update_agent_activity
UpdateAgentActivity(states, agent_id, timestamp) ==
    IF agent_id \in DOMAIN states
    THEN [states EXCEPT ![agent_id].last_activity = timestamp]
    ELSE states

\* _log_routing_decision: the line appended to routing-log.jsonl.
RoutingLogEntry(decision, envelope) ==
    [event_type |-> "routing_decision",
     from |-> GetId(envelope.from),
     to |-> GetId(envelope.to),
     routing_decision |-> decision.routing_decision,
     reason |-> decision.reason]

\* _log_routing_decision: the line appended to agent-feed.jsonl.
AgentFeedEntry(decision, envelope) ==
    [event_type |-> "message",
     from |-> GetId(envelope.from),
     to |-> GetId(envelope.to),
     type |-> GetId(envelope.type),
     priority |-> GetId(envelope.priority),
     routing_decision |-> decision.routing_decision]

-----------------------------------------------------------------------------
(* Python str operations used by Rick's gates *)

\* s[i:i+len(sub)] == sub
StartsAt(s, sub, i) ==
    /\ i + Len(sub) - 1 <= Len(s)
    /\ SubSeq(s, i, i + Len(sub) - 1) = sub

\* sub in s
Contains(s, sub) == \E i \in 1..(Len(s) + 1) : StartsAt(s, sub, i)

\* The first index at which sub occurs in s (sub occurs in s).
Find(s, sub) ==
    CHOOSE i \in 1..(Len(s) + 1) :
        StartsAt(s, sub, i) /\ \A j \in 1..(i - 1) : ~ StartsAt(s, sub, j)

\* s.split(sep), sep not empty
RECURSIVE Split(_, _)
Split(s, sep) ==
    IF Contains(s, sep)
    THEN LET i == Find(s, sep)
         IN  <<SubSeq(s, 1, i - 1)>> \o Split(SubSeq(s, i + Len(sep), Len(s)), sep)
    ELSE <<s>>

\* s.split()[0], for an s that is not blank
FirstWord(s) ==
    LET stripped == LStrip(s)
    IN  IF Contains(stripped, <<" ">>)
        THEN SubSeq(stripped, 1, Find(stripped, <<" ">>) - 1)
        ELSE stripped

\* s.rstrip(",")
RECURSIVE RStripComma(_)
RStripComma(s) ==
    IF s # <<>> /\ s[Len(s)] = "," THEN RStripComma(SubSeq(s, 1, Len(s) - 1)) ELSE s

-----------------------------------------------------------------------------
(* datetime, as Rick's gates use it: instants are minutes *)

MinutesPerDay == 24 * 60

\* datetime.fromisoformat(submitted_date_str): the string is missing or empty,
\* an ISO datetime with or without UTC offset, or no ISO datetime.
ParseSubmittedDate(submitted_date) ==
    CASE submitted_date.kind = "aware" -> [ok |-> TRUE, value |-> AwareTime(submitted_date.t)]
      [] submitted_date.kind = "naive" -> [ok |-> TRUE, value |-> NaiveTime(submitted_date.t)]
      [] OTHER -> [ok |-> FALSE, value |-> NaiveTime(0)]

\* try: submitted_date = fromisoformat(s); if submitted_date > instant: ...
\* except: pass.  ValueError (no ISO datetime) and TypeError (naive compared
\* with aware) are both swallowed.
SubmittedAfter(submitted_date, instant) ==
    LET parsed == ParseSubmittedDate(submitted_date)
    IN  parsed.ok /\ parsed.value.aware /\ parsed.value.t > instant

\* datetime.combine(now.date(), datetime.min.time()).replace(tzinfo=utc)
TodayStart(clock) == (clock \div MinutesPerDay) * MinutesPerDay

\* The first of the list indices whose record satisfies a test, 0 if none
\* (a loop that returns on the first record that matches).
FirstIndex(matching) ==
    IF matching = {} THEN 0
    ELSE CHOOSE k \in matching : \A j \in matching : k <= j

-----------------------------------------------------------------------------
(* agents/rick/workspace/skills/scoring/hard_filters.py *)

\* Rule 4: the window of a recent submission to the same client, in days.
RecentSubmissionDays == 90

\* Rule 5: applications per profile per day.
DailyLimit == 5

\* job.get("visa_requirement", "any")
GetVisaRequirement(v) == IF v = AbsentName THEN <<"a", "n", "y">> ELSE v

\* _check_dns_list: the index of the matching DNS entry, 0 for None.
CheckDnsList(candidate, job, dns) ==
    FirstIndex({k \in 1..Len(dns) :
        /\ GetId(dns[k].consultant_id) = GetId(candidate.candidate_id)
        /\ Lower(GetName(dns[k].client_name)) = Lower(GetName(job.client_name))})

\* The category test as it would be without its early return on an empty
\* required_skills list.
CheckCategoryMismatchUnguarded(candidate, job) ==
    LET candidate_skills == {Lower(candidate.skills[k]) : k \in 1..Len(candidate.skills)}
    IN  \A k \in 1..Len(job.required_skills) :
            Lower(job.required_skills[k]) \notin candidate_skills

\* _check_category_mismatch: TRUE when a dict is returned.
CheckCategoryMismatch(candidate, job) ==
    LET candidate_skills == {Lower(candidate.skills[k]) : k \in 1..Len(candidate.skills)}
        required_skills == [k \in 1..Len(job.required_skills) |->
                               Lower(job.required_skills[k])]
        exact_matches == Cardinality({k \in 1..Len(required_skills) :
                                         required_skills[k] \in candidate_skills})
    IN  IF required_skills = <<>> THEN FALSE ELSE exact_matches = 0

\* The phrases _check_visa_hard_block splits the requirement on.
ExclusionPhrases == <<<<"n", "o", " ">>,
                      <<"e", "x", "c", "l", "u", "d", "e", " ">>,
                      <<"n", "o", "t", " ">>>>

\* parts[1:] of visa_requirement.split(phrase), for every phrase.
ExclusionParts(visa_requirement) ==
    UNION {LET parts == Split(visa_requirement, ExclusionPhrases[p])
           IN  {parts[k] : k \in 2..Len(parts)} :
           p \in 1..Len(ExclusionPhrases)}

\* _check_visa_hard_block: "IndexError" when part.split()[0] is taken of a
\* blank part, else "block" (a dict is returned) or "none".
CheckVisaHardBlock(candidate, job) ==
    LET candidate_visa == Lower(GetName(candidate.visa_status))
        visa_requirement == Lower(GetVisaRequirement(job.visa_requirement))
        parts == ExclusionParts(visa_requirement)
        excluded_visas == {RStripComma(Lower(FirstWord(part))) : part \in parts}
    IN  IF \/ visa_requirement = <<"a", "n", "y">>
           \/ visa_requirement = <<"u", "n", "k", "n", "o", "w", "n">>
           \/ visa_requirement = <<>>
        THEN "none"
        ELSE IF \E part \in parts : LStrip(part) = <<>>
        THEN "IndexError"
        ELSE IF \/ candidate_visa \in excluded_visas
                \/ Contains(visa_requirement, <<"n", "o", " ">> \o candidate_visa)
        THEN "block"
        ELSE "none"

\* _check_already_submitted: the record is an exact duplicate.
IsExactDuplicate(candidate, job, submission) ==
    /\ GetId(submission.candidate_id) = GetId(candidate.candidate_id)
    /\ GetId(submission.job_id) = GetId(job.job_id)

\* _check_already_submitted: the record is a submission to the same client
\* dated after ninety_days_ago.
IsRecentSubmission(candidate, job, submission, clock) ==
    /\ GetId(submission.candidate_id) = GetId(candidate.candidate_id)
    /\ Lower(GetName(submission.client_name)) = Lower(GetName(job.client_name))
    /\ SubmittedAfter(submission.submitted_date,
                      clock - RecentSubmissionDays * MinutesPerDay)

\* _check_already_submitted: the index of the record it returns on and the
\* reason, index 0 for None.
CheckAlreadySubmitted(candidate, job, history, clock) ==
    LET k == FirstIndex({j \in 1..Len(history) :
                 \/ IsExactDuplicate(candidate, job, history[j])
                 \/ IsRecentSubmission(candidate, job, history[j], clock)})
    IN  [index |-> k,
         reason |-> IF k = 0 THEN ""
                    ELSE IF IsExactDuplicate(candidate, job, history[k])
                    THEN "Exact duplicate: Same candidate to same job posting"
                    ELSE "Recent submission to same client within 90 days"]

\* candidate.get("profile_id", candidate.get("candidate_id", ""))
CandidateProfileId(candidate) ==
    IF candidate.profile_id = Absent THEN GetId(candidate.candidate_id)
    ELSE candidate.profile_id

\* _check_daily_limit: applications_today
ApplicationsToday(candidate, history, clock) ==
    Cardinality({k \in 1..Len(history) :
        /\ GetId(history[k].profile_id) = CandidateProfileId(candidate)
        /\ SubmittedAfter(history[k].submitted_date, TodayStart(clock))})

\* _check_daily_limit: TRUE when a dict is returned.
CheckDailyLimit(candidate, history, clock) ==
    IF CandidateProfileId(candidate) = "" THEN FALSE
    ELSE ApplicationsToday(candidate, history, clock) >= DailyLimit

\* A decision dict of apply_hard_filters; details names the list index of the
\* DNS entry or submission the rule returned on (0: none).
FilterDecision(decision, reason, rule_triggered, index) ==
    [decision |-> decision, reason |-> reason, rule_triggered |-> rule_triggered,
     details |-> index]

\* apply_hard_filters lines 74-139: the dict it returns, or the exception
\* (decision "IndexError" or "KeyError") it raises.
ApplyHardFiltersResult(candidate, job, history, dns, clock) ==
    LET dns_match == CheckDnsList(candidate, job, dns)
        visa_block == CheckVisaHardBlock(candidate, job)
        already_submitted == CheckAlreadySubmitted(candidate, job, history, clock)
    IN  IF dns_match # 0
        THEN FilterDecision("ELIMINATE", "Candidate on DNS list for client",
                            "DNS_LIST_CONFLICT", dns_match)
        ELSE IF CheckCategoryMismatch(candidate, job)
        THEN FilterDecision("ELIMINATE",
                            "Category mismatch: Candidate lacks core required skills",
                            "CATEGORY_MISMATCH", 0)
        ELSE IF visa_block = "IndexError"
        THEN FilterDecision("IndexError", "raised", "", 0)
        ELSE IF visa_block = "block"
        THEN \* line 102 reads visa_block['reason'], a key the dict does not have
             FilterDecision("KeyError", "raised", "", 0)
        ELSE IF already_submitted.index # 0
        THEN FilterDecision("ELIMINATE", already_submitted.reason,
                            "ALREADY_SUBMITTED", already_submitted.index)
        ELSE IF CheckDailyLimit(candidate, history, clock)
        THEN FilterDecision("SKIP",
                            "Daily application limit reached for profile. Defer to tomorrow.",
                            "DAILY_LIMIT_REACHED", 0)
        ELSE FilterDecision("PASS", "Candidate passed all hard filters.", "", 0)

\* _log_filter_decision: the line appended to Rick's scoring_log.jsonl.
LogFilterDecision(log, candidate, job, decision) ==
    Append(log, [event_type |-> "hard_filter_decision",
                 candidate_id |-> GetId(candidate.candidate_id),
                 job_id |-> GetId(job.job_id),
                 client_name |-> <<>>,
                 decision |-> decision.decision,
                 rule_triggered |-> decision.rule_triggered,
                 reason |-> decision.reason])

-----------------------------------------------------------------------------
(* agents/rick/workspace/skills/scoring/anti_cannibalization.py *)

\* Rule 2: the window of a competing submission, in days.
CompetingSubmissionDays == 7

\* Rule 4: applications to one client per day.
ClientDailyLimit == 3

\* _check_rule_1_duplicate_job_posting: the index of the application it
\* returns on, 0 when blocks is False.
CheckRule1DuplicateJobPosting(proposed_app, history) ==
    FirstIndex({k \in 1..Len(history) :
        /\ GetId(history[k].candidate_id) = GetId(proposed_app.candidate_id)
        /\ GetId(history[k].job_id) = GetId(proposed_app.job_id)})

\* _check_rule_2_competing_submissions
CheckRule2CompetingSubmissions(proposed_app, history, clock) ==
    FirstIndex({k \in 1..Len(history) :
        /\ GetId(history[k].candidate_id) = GetId(proposed_app.candidate_id)
        /\ Lower(GetName(history[k].client_name))
              = Lower(GetName(proposed_app.client_name))
        /\ Lower(GetName(history[k].vendor_name))
              = Lower(GetName(proposed_app.vendor_name))
        /\ SubmittedAfter(history[k].submitted_date,
                          clock - CompetingSubmissionDays * MinutesPerDay)})

\* Rule 3 as it would be if it compared client names as they are spelled.
CheckRule3ProfileConsistencyExactClient(proposed_app, history) ==
    FirstIndex({k \in 1..Len(history) :
        /\ GetId(history[k].candidate_id) = GetId(proposed_app.candidate_id)
        /\ GetName(history[k].client_name) = GetName(proposed_app.client_name)
        /\ GetId(history[k].profile_id) # ""
        /\ GetId(proposed_app.profile_id) # ""
        /\ GetId(history[k].profile_id) # GetId(proposed_app.profile_id)})

\* _check_rule_3_profile_consistency
CheckRule3ProfileConsistency(proposed_app, history) ==
    FirstIndex({k \in 1..Len(history) :
        /\ GetId(history[k].candidate_id) = GetId(proposed_app.candidate_id)
        /\ Lower(GetName(history[k].client_name))
              = Lower(GetName(proposed_app.client_name))
        /\ GetId(history[k].profile_id) # ""
        /\ GetId(proposed_app.profile_id) # ""
        /\ GetId(history[k].profile_id) # GetId(proposed_app.profile_id)})

\* _check_rule_4_diversify_clients: apps_to_client_today
AppsToClientToday(proposed_app, history, clock) ==
    Cardinality({k \in 1..Len(history) :
        /\ GetId(history[k].candidate_id) = GetId(proposed_app.candidate_id)
        /\ Lower(GetName(history[k].client_name))
              = Lower(GetName(proposed_app.client_name))
        /\ SubmittedAfter(history[k].submitted_date, TodayStart(clock))})

\* Rule 4 as it would be if it blocked only above the limit.
CheckRule4DiversifyClientsStrict(proposed_app, history, clock) ==
    AppsToClientToday(proposed_app, history, clock) > ClientDailyLimit

\* _check_rule_4_diversify_clients: blocks
CheckRule4DiversifyClients(proposed_app, history, clock) ==
    AppsToClientToday(proposed_app, history, clock) >= ClientDailyLimit

\* A decision dict of check_cannibalization; details names the list index of
\* the application the rule returned on (0: none).
CannibalizationDecision(decision, rule_triggered, explanation, index) ==
    [decision |-> decision, reason |-> explanation, rule_triggered |-> rule_triggered,
     details |-> index]

\* check_cannibalization as it would be if it tried rule 4 before the others.
CheckCannibalizationResultLimitFirst(proposed_app, history, clock) ==
    LET rule1 == CheckRule1DuplicateJobPosting(proposed_app, history)
        rule2 == CheckRule2CompetingSubmissions(proposed_app, history, clock)
        rule3 == CheckRule3ProfileConsistency(proposed_app, history)
    IN  IF CheckRule4DiversifyClients(proposed_app, history, clock)
        THEN CannibalizationDecision("BLOCK", "DIVERSIFY_ACROSS_CLIENTS",
                                     "Already applications to client today. Diversify.", 0)
        ELSE IF rule1 # 0
        THEN CannibalizationDecision("BLOCK", "ONE_CANDIDATE_PER_JOB",
                                     "Candidate already submitted to job", rule1)
        ELSE IF rule2 # 0
        THEN CannibalizationDecision("BLOCK", "ONE_CANDIDATE_PER_CLIENT_PER_VENDOR_PER_WEEK",
                                     "Competing submission from same vendor to same client",
                                     rule2)
        ELSE IF rule3 # 0
        THEN CannibalizationDecision("BLOCK", "ONE_PROFILE_PER_CLIENT_EVER",
                                     "Candidate already submitted using different profile",
                                     rule3)
        ELSE CannibalizationDecision("ALLOW", "",
                                     "Application does not cannibalize recent submissions.", 0)

\* check_cannibalization lines 60-113: the dict it returns.
CheckCannibalizationResult(proposed_app, history, clock) ==
    LET rule1 == CheckRule1DuplicateJobPosting(proposed_app, history)
        rule2 == CheckRule2CompetingSubmissions(proposed_app, history, clock)
        rule3 == CheckRule3ProfileConsistency(proposed_app, history)
    IN  IF rule1 # 0
        THEN CannibalizationDecision("BLOCK", "ONE_CANDIDATE_PER_JOB",
                                     "Candidate already submitted to job", rule1)
        ELSE IF rule2 # 0
        THEN CannibalizationDecision("BLOCK", "ONE_CANDIDATE_PER_CLIENT_PER_VENDOR_PER_WEEK",
                                     "Competing submission from same vendor to same client",
                                     rule2)
        ELSE IF rule3 # 0
        THEN CannibalizationDecision("BLOCK", "ONE_PROFILE_PER_CLIENT_EVER",
                                     "Candidate already submitted using different profile",
                                     rule3)
        ELSE IF CheckRule4DiversifyClients(proposed_app, history, clock)
        THEN CannibalizationDecision("BLOCK", "DIVERSIFY_ACROSS_CLIENTS",
                                     "Already applications to client today. Diversify.", 0)
        ELSE CannibalizationDecision("ALLOW", "",
                                     "Application does not cannibalize recent submissions.", 0)

\* _log_cannibalization_decision: the line appended to Rick's scoring_log.jsonl.
LogCannibalizationDecision(log, proposed_app, decision) ==
    Append(log, [event_type |-> "cannibalization_check",
                 candidate_id |-> GetId(proposed_app.candidate_id),
                 job_id |-> GetId(proposed_app.job_id),
                 client_name |-> GetName(proposed_app.client_name),
                 decision |-> decision.decision,
                 rule_triggered |-> decision.rule_triggered,
                 reason |-> decision.reason])

-----------------------------------------------------------------------------
(* Bounds and input sets of the routing gate *)

\* The clock stops here.
MaxClock == 31

\* In a sequence of calls the routing log holds at most this many records.
MaxRouteCalls == 2

\* How far one tick moves the clock, in minutes.
ClockSteps == {30, 31}

\* The agents whose state the heartbeat process rewrites.
HeartbeatAgents == {"Z", "Rick"}

HeartbeatStates == {"ACTIVE", "ERROR", "DEAD"}

\* Queue depths and data ages the environment reports.
\* Rick's queue is also seen at the threshold itself.
QueueDepths(agent_id) == IF agent_id = "Rick" THEN {0, 30, 31} ELSE {0, 31}

\* The agents whose queue depth the environment reports.
QueuedAgents == {"Rick", "Jay"}

DataAges == {0, 241}

\* The dependency graphs a loadable routing_rules.json may declare.
DepGraphs == {KnownAgents, KnownAgents \ {"Rick"}}

\* "EM" is the broker itself and no key of agent_states.
Senders == {"Jay", "EM"}

Targets == {"Z", "Rick", "Jay", "EM"}

\* An envelope's timestamp: no key, "...+00:00" written at minute 0, the same
\* without UTC offset, and a string that is no ISO datetime.
Timestamps ==
    {[kind |-> "absent", t |-> 0], [kind |-> "aware", t |-> 0],
     [kind |-> "naive", t |-> 0], [kind |-> "garbage", t |-> 0]}

Envelopes ==
    {e \in [from : Senders, to : Targets,
            type : {"SUBMISSION_REQUEST", "ALERT", Absent},
            priority : {"URGENT", "HIGH", Absent},
            severity : {"CRITICAL", "HIGH", "LOW", Absent},
            timestamp : Timestamps] :
        /\ e.type # "ALERT" => e.severity = Absent
        /\ e.from = "EM" => e.timestamp.kind \in {"absent", "garbage"}}

\* The envelopes of a sequence of calls.
SequenceEnvelopes ==
    [from : Senders, to : {"Jay", "Z"}, type : {Absent},
     priority : {"URGENT", Absent}, severity : {Absent}, timestamp : Timestamps]

NoEnvelope ==
    [from |-> Absent, to |-> Absent, type |-> Absent, priority |-> Absent,
     severity |-> Absent, timestamp |-> [kind |-> "absent", t |-> 0]]

NoDecision == Decision("", <<"", "">>, Absent, Absent, Absent)

\* No call of route_message is in progress or remembered.
NoRouteCall ==
    [outcome |-> "none", exception |-> "", envelope |-> NoEnvelope,
     decision |-> NoDecision, before |-> InitialAgentStates(0), appended |-> 0]

-----------------------------------------------------------------------------
(* Actions of the routing gate *)

\* The rules file, as the value of dep_graph: routing_rules.json does not
\* exist, or is no JSON document.
RulesFileAbsent == {"<no file>"}

RulesFileNotJson == {"<not json>"}

\* A JSON object without the key "dependency_graph": rules.get gives {}.
RulesWithoutGraph == {}

\* load_rules: the exception that open or json.load raises, "" when the
\* rules are loaded.
LoadRules(file) ==
    CASE file = RulesFileAbsent -> "FileNotFoundError"
      [] file = RulesFileNotJson -> "JSONDecodeError"
      [] OTHER -> ""

\* route_message(envelope, state)
RouteMessage(envelope) ==
    LET evaluated == EvaluateRules(envelope, agent_states, data_freshness, dep_graph, now)
        decision == [evaluated EXCEPT !.sla = Sla(evaluated, envelope)]
        timestamp == FromIsoformat(envelope.timestamp, now)
    IN  /\ IF LoadRules(dep_graph) # ""
           THEN \* load_rules raised: nothing is evaluated, logged or returned
                /\ route_call' = [outcome |-> "raised",
                                  exception |-> LoadRules(dep_graph),
                                  envelope |-> envelope, decision |-> NoDecision,
                                  before |-> agent_states, appended |-> 0]
                /\ UNCHANGED <<routing_log, agent_feed, agent_states>>
           ELSE IF evaluated.routing_decision \in Exceptions
           THEN \* evaluate_rules raised: nothing is logged, nothing returned
                /\ route_call' = [outcome |-> "raised",
                                  exception |-> evaluated.routing_decision,
                                  envelope |-> envelope, decision |-> NoDecision,
                                  before |-> agent_states, appended |-> 0]
                /\ UNCHANGED <<routing_log, agent_feed, agent_states>>
           ELSE /\ routing_log' = Append(routing_log, RoutingLogEntry(decision, envelope))
                /\ agent_feed' = Append(agent_feed, AgentFeedEntry(decision, envelope))
                /\ IF timestamp.ok
                   THEN /\ agent_states' = UpdateAgentActivity(
                               agent_states, GetAgent(envelope.from), timestamp.value)
                        /\ route_call' = [outcome |-> "returned", exception |-> "",
                                          envelope |-> envelope, decision |-> decision,
                                          before |-> agent_states, appended |-> 1]
                   ELSE \* fromisoformat raised after the decision was logged
                        /\ agent_states' = agent_states
                        /\ route_call' = [outcome |-> "raised", exception |-> "ValueError",
                                          envelope |-> envelope, decision |-> decision,
                                          before |-> agent_states, appended |-> 1]
        /\ UNCHANGED <<data_freshness, now, dep_graph>>
        /\ UNCHANGED <<dupVars, rickVars>>

\* The heartbeat process rewrites an agent's state.
Heartbeat(agent_id, state) ==
    /\ agent_states[agent_id].state # state
    /\ agent_states' = [agent_states EXCEPT ![agent_id].state = state]
    /\ UNCHANGED <<data_freshness, now, dep_graph, route_call, routing_log, agent_feed>>
    /\ UNCHANGED <<dupVars, rickVars>>

\* state.update_agent_activity(agent_id, timestamp), called by another
\* component, with the current time or with a naive datetime.
RecordActivity(agent_id, aware) ==
    /\ agent_states' = UpdateAgentActivity(agent_states, agent_id,
                          IF aware THEN AwareTime(now) ELSE NaiveTime(now))
    /\ agent_states' # agent_states
    /\ UNCHANGED <<data_freshness, now, dep_graph, route_call, routing_log, agent_feed>>
    /\ UNCHANGED <<dupVars, rickVars>>

\* An agent's queue fills or drains.
SetQueueDepth(agent_id, depth) ==
    /\ agent_states[agent_id].queue_depth # depth
    /\ agent_states' = [agent_states EXCEPT ![agent_id].queue_depth = depth]
    /\ UNCHANGED <<data_freshness, now, dep_graph, route_call, routing_log, agent_feed>>
    /\ UNCHANGED <<dupVars, rickVars>>

\* Z's upstream data ages or is refreshed.
SetDataAge(age) ==
    /\ data_freshness # age
    /\ data_freshness' = age
    /\ UNCHANGED <<agent_states, now, dep_graph, route_call, routing_log, agent_feed>>
    /\ UNCHANGED <<dupVars, rickVars>>

\* routing_rules.json is edited.
EditRules(graph) ==
    /\ dep_graph # graph
    /\ dep_graph' = graph
    /\ UNCHANGED <<agent_states, data_freshness, now, route_call, routing_log, agent_feed>>
    /\ UNCHANGED <<dupVars, rickVars>>

\* Time passes; the caller has consumed the last decision.
Tick(step) ==
    /\ now + step <= MaxClock
    /\ now' = now + step
    /\ route_call' = NoRouteCall
    /\ UNCHANGED <<agent_states, data_freshness, dep_graph, routing_log, agent_feed>>
    /\ UNCHANGED <<dupVars, rickVars>>

-----------------------------------------------------------------------------
(* Bounds and input sets of the duplicate-submission gate *)

\* The longest submission history handed to check_submission.
MaxHistory == 2

\* The scoring log of agent Z holds at most this many records.
MaxDupCalls == 2

\* "ac" and " Ac" are one client after upper().strip(); "g" is another.
RequestClients == {<<"a", "c">>, AbsentName}

HistoryClients == {<<" ", "A", "c">>, <<"g">>}

\* "t" and "T " are one vendor after upper().strip(); "i" is another.
RequestVendors == {<<"t">>}

HistoryVendors == {<<"T", " ">>, <<"i">>}

\* Request dates: 2026-06-01, 2026-05-31 and the unparseable 2026-02-30.
RequestDates == {<<2026, 6, 1>>, <<2026, 5, 31>>, <<2026, 2, 30>>}

\* A date every window contains.
RecentDate == <<2026, 5, 22>>

\* Record dates 10, 30, 31, 90 and 91 days before 2026-06-01 (one day less
\* before 2026-05-31), the unparseable 2026-13-01 and the missing date.
HistoryDates ==
    {RecentDate, <<2026, 5, 2>>, <<2026, 5, 1>>, <<2026, 3, 3>>, <<2026, 3, 2>>,
     <<2026, 13, 1>>, <<>>}

\* The request without end_client is dated 2026-06-01.
Requests ==
    {q \in [consultant_id : {"C1"}, end_client : RequestClients,
            vendor_name : RequestVendors, job_posting_id : {"J1"},
            submission_date : RequestDates, do_not_submit : {<<>>}] :
        q.end_client = AbsentName => q.submission_date = <<2026, 6, 1>>}

\* Records of the requesting consultant C1 for the request's client: under
\* another posting via the same vendor (the 90-day edge, the unparseable and
\* the missing date) and via another vendor (the 30-day edge), and under the
\* request's posting.  Records for another client and of consultant C2 carry
\* the recent date.
HistoryRecords ==
    {r \in [consultant_id : {"C1", "C2"}, end_client : HistoryClients,
            vendor_name : HistoryVendors, job_posting_id : {"J1", "J2"},
            submission_date : HistoryDates] :
        \/ /\ r.consultant_id = "C1" /\ r.end_client = <<" ", "A", "c">>
           /\ r.job_posting_id = "J2" /\ r.vendor_name = <<"T", " ">>
           /\ r.submission_date
                 \in {RecentDate, <<2026, 3, 3>>, <<2026, 3, 2>>, <<2026, 13, 1>>, <<>>}
        \/ /\ r.consultant_id = "C1" /\ r.end_client = <<" ", "A", "c">>
           /\ r.job_posting_id = "J2" /\ r.vendor_name = <<"i">>
           /\ r.submission_date
                 \in {RecentDate, <<2026, 5, 2>>, <<2026, 5, 1>>, <<2026, 3, 2>>}
        \/ /\ r.consultant_id = "C1" /\ r.end_client = <<" ", "A", "c">>
           /\ r.job_posting_id = "J1"
           /\ \/ r.submission_date = RecentDate
              \/ r.submission_date = <<2026, 13, 1>> /\ r.vendor_name = <<"T", " ">>
        \/ /\ r.consultant_id = "C1" /\ r.end_client = <<"g">>
           /\ r.submission_date = RecentDate
           /\ \/ r.job_posting_id = "J1" /\ r.vendor_name = <<"T", " ">>
              \/ r.job_posting_id = "J2" /\ r.vendor_name = <<"i">>
        \/ /\ r.consultant_id = "C2" /\ r.end_client = <<" ", "A", "c">>
           /\ r.job_posting_id = "J1" /\ r.submission_date = RecentDate}

Histories == UNION {[1..n -> HistoryRecords] : n \in 0..MaxHistory}

\* Master DNS lists: empty, or C1 barred from " AC" company-wide.
DnsLists ==
    {<<>>,
     <<[consultant_id |-> "C1", company |-> <<" ", "A", "C">>, vendor |-> <<>>]>>}

NoRequest ==
    [consultant_id |-> Absent, end_client |-> AbsentName, vendor_name |-> AbsentName,
     job_posting_id |-> Absent, submission_date |-> <<>>, do_not_submit |-> <<>>]

NoDupCall == [outcome |-> "none", request |-> NoRequest, result |-> NoResult]

\* Two callers that have not started: each will read the history, call
\* check_submission on what it read, and append its request on ALLOW.
CallerIds == {"caller1", "caller2"}

NoCallers ==
    [c \in CallerIds |->
        [pc |-> "idle", request |-> NoRequest, history |-> <<>>, result |-> NoResult]]

-----------------------------------------------------------------------------
(* Actions of the duplicate-submission gate *)

\* check_submission as it would be if it recorded the request it allowed in
\* the history it was given.
CheckSubmissionRecording(request) ==
    /\ Len(z_scoring_log) < MaxDupCalls
    /\ ~ CheckSubmissionRaises(request, submission_history)
    /\ LET result == CheckSubmissionResult(request, submission_history, dns_list)
       IN  /\ z_scoring_log' = LogCheck(z_scoring_log, result)
           /\ dup_call' = [outcome |-> "returned", request |-> request,
                           result |-> result]
           /\ submission_history' =
                 IF result.decision = "ALLOW"
                 THEN Append(submission_history,
                             [consultant_id |-> request.consultant_id,
                              end_client |-> request.end_client,
                              vendor_name |-> request.vendor_name,
                              job_posting_id |-> request.job_posting_id,
                              submission_date |-> request.submission_date])
                 ELSE submission_history
    /\ UNCHANGED <<dns_list, callers>>
    /\ UNCHANGED <<routeVars, rickVars>>

\* check_submission(request, submission_history, dns_list)
CheckSubmission(request) ==
    /\ Len(z_scoring_log) < MaxDupCalls
    /\ IF CheckSubmissionRaises(request, submission_history)
       THEN /\ dup_call' = [outcome |-> "raised", request |-> request,
                            result |-> NoResult]
            /\ UNCHANGED z_scoring_log
       ELSE LET result == CheckSubmissionResult(request, submission_history, dns_list)
            IN  /\ z_scoring_log' = LogCheck(z_scoring_log, result)
                /\ dup_call' = [outcome |-> "returned", request |-> request,
                                result |-> result]
    /\ UNCHANGED <<submission_history, dns_list, callers>>
    /\ UNCHANGED <<routeVars, rickVars>>

-----------------------------------------------------------------------------
(* Bounds and input sets of Rick's gates *)

\* Records of a history besides today's applications.
MaxRickHistory == 2

\* Today's applications in a history.
MaxToday == 5

\* Calls of Rick's gates in one behaviour.
MaxRickCalls == 1

\* The wall clock of Rick's gates: day 100, 10:00 UTC.
RickNow == 100 * MinutesPerDay + 600

\* An ISO timestamp with UTC offset, written at instant t.
AwareStamp(t) == [kind |-> "aware", t |-> t]

\* submitted_date strings: one minute after and exactly at today's midnight,
\* one minute inside and exactly at the edge of the 7-day and 90-day windows,
\* a timestamp without UTC offset, a string that is no timestamp, no string.
TodayStamp == AwareStamp(TodayStart(RickNow) + 1)

WeekStamp == AwareStamp(RickNow - 7 * MinutesPerDay + 1)

SubmittedDates ==
    {TodayStamp,
     AwareStamp(TodayStart(RickNow)),
     WeekStamp,
     AwareStamp(RickNow - 7 * MinutesPerDay),
     AwareStamp(RickNow - 90 * MinutesPerDay + 1),
     AwareStamp(RickNow - 90 * MinutesPerDay),
     [kind |-> "naive", t |-> TodayStart(RickNow) + 1],
     [kind |-> "garbage", t |-> 0],
     [kind |-> "absent", t |-> 0]}

\* The client of the job, as the job, the history and the DNS list spell it.
JobClient == <<"A", "c">>

HistoryClient == <<"a", "C">>

PaddedClient == <<"a", "c", " ">>

OtherClient == <<"g">>

\* A history record of candidate K1 under profile P1 for the job's client via
\* the proposed vendor, for another job.
BaseRecord(submitted_date) ==
    [candidate_id |-> "K1", profile_id |-> "P1", client_name |-> HistoryClient,
     vendor_name |-> <<"T">>, job_id |-> "J2", submitted_date |-> submitted_date]

\* The base record on every date, and its variations dated within the week.
RickRecords ==
    {BaseRecord(d) : d \in SubmittedDates}
    \cup {[BaseRecord(WeekStamp) EXCEPT !.job_id = "J1"],
          [BaseRecord([kind |-> "garbage", t |-> 0]) EXCEPT !.job_id = "J1"],
          [BaseRecord(WeekStamp) EXCEPT !.job_id = "J1", !.candidate_id = "K2"],
          [BaseRecord(WeekStamp) EXCEPT !.candidate_id = "K2"],
          [BaseRecord(WeekStamp) EXCEPT !.client_name = OtherClient],
          [BaseRecord(WeekStamp) EXCEPT !.client_name = PaddedClient],
          [BaseRecord(WeekStamp) EXCEPT !.client_name = AbsentName],
          [BaseRecord(WeekStamp) EXCEPT !.vendor_name = <<"i">>],
          [BaseRecord(WeekStamp) EXCEPT !.vendor_name = AbsentName],
          [BaseRecord(AwareStamp(RickNow - 7 * MinutesPerDay))
              EXCEPT !.profile_id = "P2"],
          [BaseRecord(WeekStamp) EXCEPT !.profile_id = Absent]}

\* Today's applications of profile P1: n records, to the job's client or to
\* another one, via another vendor, each for a job of its own.
TodayJobs == <<"F1", "F2", "F3", "F4", "F5", "F6", "F7">>

TodayRecords(n, client_name) ==
    [k \in 1..n |->
        [candidate_id |-> "K1", profile_id |-> "P1", client_name |-> client_name,
         vendor_name |-> <<"i">>, job_id |-> TodayJobs[k],
         submitted_date |-> TodayStamp]]

\* Histories: today's applications followed by at most one other record, or
\* up to MaxRickHistory other records in any order.
RickHistories ==
    {TodayRecords(n, c) \o tail :
        n \in 1..MaxToday, c \in {HistoryClient, OtherClient},
        tail \in UNION {[1..m -> RickRecords] : m \in 0..1}}
    \cup UNION {[1..m -> RickRecords] : m \in 0..MaxRickHistory}

\* DNS lists: empty, K1 barred from the job's client, K1 barred from the
\* client spelled with a trailing blank.
RickDnsLists ==
    {<<>>,
     <<[consultant_id |-> "K1", client_name |-> HistoryClient]>>,
     <<[consultant_id |-> "K2", client_name |-> HistoryClient],
       [consultant_id |-> "K1", client_name |-> PaddedClient]>>}

\* Candidates: Java or Go developer or no skill listed, H1B or GC, with or
\* without a profile_id.
Candidates ==
    {[candidate_id |-> "K1", skills |-> <<<<"J", "a", "v", "a">>>>,
      visa_status |-> <<"H", "1", "B">>, profile_id |-> "P1"],
     [candidate_id |-> "K1", skills |-> <<<<"J", "a", "v", "a">>>>,
      visa_status |-> <<"G", "C">>, profile_id |-> "P1"],
     [candidate_id |-> "K1", skills |-> <<<<"J", "a", "v", "a">>>>,
      visa_status |-> <<"G", "C">>, profile_id |-> Absent],
     [candidate_id |-> "K1", skills |-> <<<<"g", "o">>>>,
      visa_status |-> <<"G", "C">>, profile_id |-> "P1"],
     [candidate_id |-> "K1", skills |-> <<>>,
      visa_status |-> <<"G", "C">>, profile_id |-> "P1"]}

\* visa_requirement strings: "No H1B", "not H1B, GC ok", and "GC, no ".
VisaRequirements ==
    {AbsentName,
     <<"N", "o", " ", "H", "1", "B">>,
     <<"n", "o", "t", " ", "H", "1", "B", ",", " ", "G", "C", " ", "o", "k">>,
     <<"G", "C", ",", " ", "n", "o", " ">>}

\* Jobs of the job's client: Java required under every visa requirement, or
\* nothing required.
Jobs ==
    {[job_id |-> "J1", client_name |-> JobClient,
      required_skills |-> <<<<"j", "a", "v", "a">>>>, visa_requirement |-> v] :
        v \in VisaRequirements}
    \cup {[job_id |-> "J1", client_name |-> JobClient, required_skills |-> <<>>,
           visa_requirement |-> AbsentName]}

\* Proposed applications of K1 to job J1 of the job's client via vendor "t".
ProposedApps ==
    [candidate_id : {"K1"}, profile_id : {"P1", Absent}, job_id : {"J1"},
     client_name : {JobClient}, vendor_name : {<<"t">>}]

NoCandidate ==
    [candidate_id |-> Absent, skills |-> <<>>, visa_status |-> AbsentName,
     profile_id |-> Absent]

NoJob ==
    [job_id |-> Absent, client_name |-> AbsentName, required_skills |-> <<>>,
     visa_requirement |-> AbsentName]

NoApp ==
    [candidate_id |-> Absent, profile_id |-> Absent, job_id |-> Absent,
     client_name |-> AbsentName, vendor_name |-> AbsentName]

NoRickDecision == FilterDecision("", "", "", 0)

\* No call of Rick's gates is remembered.
NoRickCall ==
    [gate |-> "none", outcome |-> "none", candidate |-> NoCandidate, job |-> NoJob,
     proposed_app |-> NoApp, result |-> NoRickDecision, appended |-> 0, calls |-> 0]

-----------------------------------------------------------------------------
(* Actions of Rick's gates *)

\* apply_hard_filters(candidate, job, submission_history, dns_list): only the
\* PASS path (lines 128-142) calls _log_filter_decision.
ApplyHardFilters(candidate, job) ==
    LET result == ApplyHardFiltersResult(candidate, job, rick_history, rick_dns, now)
        logged == IF result.decision = "PASS"
                  THEN LogFilterDecision(rick_scoring_log, candidate, job, result)
                  ELSE rick_scoring_log
    IN  /\ rick_call.calls < MaxRickCalls
        /\ rick_scoring_log' = logged
        /\ rick_call' = [gate |-> "hard_filters",
                         outcome |-> IF result.decision \in {"IndexError", "KeyError"}
                                     THEN "raised" ELSE "returned",
                         candidate |-> candidate, job |-> job, proposed_app |-> NoApp,
                         result |-> result,
                         appended |-> Len(logged) - Len(rick_scoring_log),
                         calls |-> rick_call.calls + 1]
        /\ UNCHANGED <<rick_history, rick_dns>>
        /\ UNCHANGED <<dupVars, routeVars>>

\* check_cannibalization(proposed_app, application_history): only the ALLOW
\* path (lines 103-116) calls _log_cannibalization_decision.
CheckCannibalization(proposed_app) ==
    LET result == CheckCannibalizationResult(proposed_app, rick_history, now)
        logged == IF result.decision = "ALLOW"
                  THEN LogCannibalizationDecision(rick_scoring_log, proposed_app, result)
                  ELSE rick_scoring_log
    IN  /\ rick_call.calls < MaxRickCalls
        /\ rick_scoring_log' = logged
        /\ rick_call' = [gate |-> "cannibalization", outcome |-> "returned",
                         candidate |-> NoCandidate, job |-> NoJob,
                         proposed_app |-> proposed_app, result |-> result,
                         appended |-> Len(logged) - Len(rick_scoring_log),
                         calls |-> rick_call.calls + 1]
        /\ UNCHANGED <<rick_history, rick_dns>>
        /\ UNCHANGED <<dupVars, routeVars>>

-----------------------------------------------------------------------------
(* Specifications *)

DupIdle ==
    /\ submission_history = <<>>
    /\ dns_list = <<>>
    /\ dup_call = NoDupCall
    /\ callers = NoCallers
    /\ z_scoring_log = <<>>

RouteIdle ==
    /\ agent_states = InitialAgentStates(0)
    /\ data_freshness = 0
    /\ now = 0
    /\ dep_graph = KnownAgents
    /\ route_call = NoRouteCall
    /\ routing_log = <<>>
    /\ agent_feed = <<>>

RickIdle ==
    /\ rick_history = <<>>
    /\ rick_dns = <<>>
    /\ rick_call = NoRickCall
    /\ rick_scoring_log = <<>>

\* check_submission applied to any request, history and DNS list.
InitDup ==
    /\ submission_history \in Histories
    /\ dns_list \in DnsLists
    /\ dup_call = NoDupCall
    /\ callers = NoCallers
    /\ z_scoring_log = <<>>
    /\ RouteIdle
    /\ RickIdle

NextDup == \E request \in Requests : CheckSubmission(request)

SpecDup == InitDup /\ [][NextDup]_vars

\* One route_message call on a SystemState that the heartbeat, the other
\* components, the queues, the data age, the rules file and the clock have
\* brought into any of its states.
InitRoute == RouteIdle /\ DupIdle /\ RickIdle

NextRoute ==
    \/ \E envelope \in Envelopes :
          route_call.outcome = "none" /\ RouteMessage(envelope)
    \/ \E agent_id \in HeartbeatAgents, state \in HeartbeatStates :
          route_call.outcome = "none" /\ Heartbeat(agent_id, state)
    \/ \E aware \in BOOLEAN :
          route_call.outcome = "none" /\ RecordActivity("Jay", aware)
    \/ \E agent_id \in QueuedAgents : \E depth \in QueueDepths(agent_id) :
          route_call.outcome = "none" /\ SetQueueDepth(agent_id, depth)
    \/ \E age \in DataAges :
          route_call.outcome = "none" /\ SetDataAge(age)
    \/ \E graph \in DepGraphs :
          route_call.outcome = "none" /\ EditRules(graph)
    \/ \E step \in ClockSteps :
          route_call.outcome = "none" /\ Tick(step)

SpecRoute == InitRoute /\ [][NextRoute]_vars

\* Sequences of route_message calls on one SystemState, as time passes.
NextRouteSequence ==
    \/ /\ Len(routing_log) < MaxRouteCalls
       /\ \E envelope \in SequenceEnvelopes : RouteMessage(envelope)
    \/ \E step \in ClockSteps : Tick(step)

SpecRouteSequence == InitRoute /\ [][NextRouteSequence]_vars

\* Rick's gates applied to any candidate, job, application, history and DNS
\* list at RickNow.
InitRick ==
    /\ rick_history \in RickHistories
    /\ rick_dns \in RickDnsLists
    /\ rick_call = NoRickCall
    /\ rick_scoring_log = <<>>
    /\ agent_states = InitialAgentStates(RickNow)
    /\ data_freshness = 0
    /\ now = RickNow
    /\ dep_graph = KnownAgents
    /\ route_call = NoRouteCall
    /\ routing_log = <<>>
    /\ agent_feed = <<>>
    /\ DupIdle

NextRick ==
    \/ \E candidate \in Candidates, job \in Jobs : ApplyHardFilters(candidate, job)
    \/ \E proposed_app \in ProposedApps : CheckCannibalization(proposed_app)

SpecRick == InitRick /\ [][NextRick]_vars

-----------------------------------------------------------------------------
(* Claims about check_submission, checked under SpecDup *)

\* The last call's request, history-independent readings of it.
DupRequest == dup_call.request

DupResult == dup_call.result

DupReturned == dup_call.outcome = "returned"

\* The result holds an entry of this rule for this record.
HasEntry(rule, record) ==
    \E k \in 1..Len(DupResult.rules_triggered) :
        /\ DupResult.rules_triggered[k].rule = rule
        /\ DupResult.rules_triggered[k].conflicting_record = record

HasRule(rule) ==
    \E k \in 1..Len(DupResult.rules_triggered) : DupResult.rules_triggered[k].rule = rule

HasSeverity(severity) ==
    \E k \in 1..Len(DupResult.rules_triggered) :
        DupResult.rules_triggered[k].severity = severity

\* Every date string the call may parse is an ISO date.
AllDatesParse ==
    /\ IsIsoDate(DupRequest.submission_date)
    /\ \A k \in 1..Len(submission_history) :
          \/ submission_history[k].submission_date = <<>>
          \/ IsIsoDate(submission_history[k].submission_date)

\* The record is of the request's consultant, for the request's (known) end
\* client, and `days` is how many days before the request it is dated.
SameConsultant(record) == record.consultant_id = DupRequest.consultant_id

SameKnownClient(record) ==
    /\ UpperStrip(GetName(record.end_client)) = UpperStrip(GetName(DupRequest.end_client))
    /\ UpperStrip(GetName(record.end_client)) # <<>>

SameVendor(record) ==
    UpperStrip(GetName(record.vendor_name)) = UpperStrip(GetName(DupRequest.vendor_name))

SamePosting(record) == record.job_posting_id = GetId(DupRequest.job_posting_id)

DaysBefore(record) ==
    DateOrdinal(DupRequest.submission_date) - DateOrdinal(record.submission_date)

\* C2: whenever the history holds a record with the request's consultant_id and
\* job_posting_id, check_submission returns BLOCK with a rule-2 entry for that
\* record, whatever the two dates, the client and the vendor (a call raises only
\* on a date string that is no date); a request on empty history and empty DNS
\* is ALLOWed, and the same request 10 days later, with the first submission in
\* the history, is BLOCKed by rule 2.
C2_ExactDuplicateBlocks ==
    dup_call.outcome # "none" =>
        /\ AllDatesParse => DupReturned
        /\ DupReturned =>
              /\ \A k \in 1..Len(submission_history) :
                    (SameConsultant(submission_history[k]) /\ SamePosting(submission_history[k]))
                       => /\ DupResult.decision = "BLOCK"
                          /\ HasEntry(2, submission_history[k])
              /\ (submission_history = <<>> /\ dns_list = <<>>)
                    => DupResult.decision = "ALLOW"

\* C2 witness: the same consultant, client, vendor and posting, first submitted
\* on 2026-05-22 and again on 2026-06-01, is BLOCKed by rule 2 and not by rule 1.
C2_Witness ==
    /\ DupReturned
    /\ Len(submission_history) = 1
    /\ SameConsultant(submission_history[1])
    /\ SamePosting(submission_history[1])
    /\ SameKnownClient(submission_history[1])
    /\ SameVendor(submission_history[1])
    /\ IsIsoDate(submission_history[1].submission_date)
    /\ IsIsoDate(DupRequest.submission_date)
    /\ DaysBefore(submission_history[1]) = 10
    /\ DupResult.decision = "BLOCK"
    /\ HasRule(2)
    /\ ~ HasRule(1)

\* C3: a record of the same consultant for the same end client via another
\* vendor, dated at most 30 days before the request, gives BLOCK and not WARN;
\* every result with a rule-3 entry has a rule-1 or rule-2 entry, and WARN is
\* never the decision.
C3_WarnNeverWins ==
    DupReturned =>
        /\ \A k \in 1..Len(submission_history) :
              (/\ SameConsultant(submission_history[k])
               /\ SameKnownClient(submission_history[k])
               /\ ~ SameVendor(submission_history[k])
               /\ IsIsoDate(submission_history[k].submission_date)
               /\ DaysBefore(submission_history[k]) \in 0..30)
                 => /\ DupResult.decision = "BLOCK"
                    /\ HasEntry(3, submission_history[k])
        /\ HasRule(3) => (HasRule(1) \/ HasRule(2))
        /\ DupResult.decision # "WARN"

\* C3 witness: another vendor, same client, 29 days before: rules 3 and 1 fire.
C3_Witness ==
    /\ DupReturned
    /\ Len(submission_history) = 1
    /\ SameConsultant(submission_history[1])
    /\ SameKnownClient(submission_history[1])
    /\ ~ SameVendor(submission_history[1])
    /\ IsIsoDate(submission_history[1].submission_date)
    /\ DaysBefore(submission_history[1]) = 29
    /\ HasRule(3)
    /\ HasRule(1)
    /\ DupResult.decision = "BLOCK"

\* No DNS entry names the request's consultant and end client.
NoDnsMatch ==
    /\ DupRequest.do_not_submit = <<>>
    /\ \A k \in 1..Len(dns_list) :
          ~ (/\ dns_list[k].consultant_id = DupRequest.consultant_id
             /\ UpperStrip(GetName(dns_list[k].company))
                   = UpperStrip(GetName(DupRequest.end_client)))

\* The consultant's only record in the history, when there is exactly one.
OnlyRecordOfConsultant(k) ==
    /\ SameConsultant(submission_history[k])
    /\ \A j \in 1..Len(submission_history) :
          SameConsultant(submission_history[j]) => j = k

\* C4: with no DNS match, when the consultant's only history record is for the
\* same end client under another job posting id, the decision is ALLOW if the
\* record is dated 91 or more days before the request and BLOCK by rule 1 if it
\* is dated 90 days or fewer before it, the 90th day included.
C4_NinetyDayWindow ==
    \A k \in 1..Len(submission_history) :
        (/\ dup_call.outcome # "none"
         /\ NoDnsMatch
         /\ OnlyRecordOfConsultant(k)
         /\ SameKnownClient(submission_history[k])
         /\ ~ SamePosting(submission_history[k])
         /\ IsIsoDate(submission_history[k].submission_date)
         /\ IsIsoDate(DupRequest.submission_date))
           => /\ DupReturned
              /\ DaysBefore(submission_history[k]) >= 91 => DupResult.decision = "ALLOW"
              /\ DaysBefore(submission_history[k]) \in 0..90
                    => /\ DupResult.decision = "BLOCK"
                       /\ HasEntry(1, submission_history[k])

\* C4 witness: the record is dated exactly 90 days before the request and blocks.
C4_Witness ==
    \E k \in 1..Len(submission_history) :
        /\ DupReturned
        /\ NoDnsMatch
        /\ OnlyRecordOfConsultant(k)
        /\ SameKnownClient(submission_history[k])
        /\ ~ SamePosting(submission_history[k])
        /\ IsIsoDate(submission_history[k].submission_date)
        /\ IsIsoDate(DupRequest.submission_date)
        /\ DaysBefore(submission_history[k]) = 90
        /\ DupResult.decision = "BLOCK"

\* C5: every call of check_submission that returns appends exactly one record
\* to the scoring log, carrying the returned decision; a call that raises
\* appends none.
C5_OneLogRecordPerCall ==
    [][/\ dup_call'.outcome = "returned"
          => /\ Len(z_scoring_log') = Len(z_scoring_log) + 1
             /\ SubSeq(z_scoring_log', 1, Len(z_scoring_log)) = z_scoring_log
             /\ z_scoring_log'[Len(z_scoring_log')].event_type = "duplicate_check"
             /\ z_scoring_log'[Len(z_scoring_log')].decision = dup_call'.result.decision
             /\ z_scoring_log'[Len(z_scoring_log')].rules_triggered_count
                   = Len(dup_call'.result.rules_triggered)
       /\ dup_call'.outcome = "raised" => z_scoring_log' = z_scoring_log]_vars

\* C5 witness: two calls returned, an ALLOW after a BLOCK, and the log holds
\* the two decisions in that order.
C5_Witness ==
    /\ DupReturned
    /\ Len(z_scoring_log) = 2
    /\ z_scoring_log[1].decision = "BLOCK"
    /\ z_scoring_log[2].decision = "ALLOW"
    /\ DupResult.decision = "ALLOW"

\* The highest severity among the entries of rules_triggered.
HighestSeverity ==
    IF HasSeverity("BLOCK") THEN "BLOCK"
    ELSE IF HasSeverity("WARN") THEN "WARN"
    ELSE "ALLOW"

\* The history without the records of other consultants that rule 4 logs.
WithoutRule4Records ==
    SelectSeq(submission_history,
              LAMBDA r : ~ (~ SameConsultant(r) /\ SamePosting(r) /\ SameVendor(r)))

\* C10: the decision is the highest severity among the entries of
\* rules_triggered (BLOCK over WARN over none); a record of another consultant
\* on the same job posting via the same vendor always has its rule-4 LOG entry
\* and the decision is the one the history without such records gives.
C10_DecisionIsHighestSeverity ==
    DupReturned =>
        /\ DupResult.decision = HighestSeverity
        /\ \A k \in 1..Len(submission_history) :
              (/\ ~ SameConsultant(submission_history[k])
               /\ SamePosting(submission_history[k])
               /\ SameVendor(submission_history[k]))
                 => /\ HasEntry(4, submission_history[k])
                    /\ \E j \in 1..Len(DupResult.rules_triggered) :
                          /\ DupResult.rules_triggered[j].rule = 4
                          /\ DupResult.rules_triggered[j].severity = "LOG"
        /\ DupResult.decision
              = CheckSubmissionResult(DupRequest, WithoutRule4Records, dns_list).decision

\* C10 witness: a rule-4 LOG entry beside a WARN and a BLOCK entry; the
\* decision is BLOCK.
C10_Witness ==
    /\ DupReturned
    /\ HasSeverity("LOG")
    /\ HasSeverity("WARN")
    /\ HasSeverity("BLOCK")
    /\ DupResult.decision = "BLOCK"

-----------------------------------------------------------------------------
(* Claims about route_message, checked under SpecRoute and SpecRouteSequence *)

RouteEnvelope == route_call.envelope

RouteDecision == route_call.decision

RouteCalled == route_call.outcome # "none"

\* Z was DEAD or in ERROR when the call was made.
ZWasDown == route_call.before["Z"].state \in {"DEAD", "ERROR"}

\* The target was a known agent, not DEAD or in ERROR, last active (by an
\* aware timestamp) within the last 30 minutes, when the call was made.
TargetWasHealthy ==
    /\ RouteEnvelope.to \in DOMAIN route_call.before
    /\ route_call.before[RouteEnvelope.to].state \notin {"DEAD", "ERROR"}
    /\ route_call.before[RouteEnvelope.to].last_activity.aware
    /\ now - route_call.before[RouteEnvelope.to].last_activity.t <= 30

\* The envelope's timestamp is absent or an ISO datetime.
TimestampParses == RouteEnvelope.timestamp.kind # "garbage"

\* C1: a SUBMISSION_REQUEST routed while Z is DEAD or in ERROR gets the
\* decision ESCALATE_TO_HUMAN with severity CRITICAL, whatever its priority, its
\* target and the target's state; the decision is logged, it is never
\* ROUTE_IMMEDIATELY or a HOLD, and it is returned unless the envelope's
\* timestamp is no ISO datetime.
C1_SafetyGateEscalates ==
    (RouteCalled /\ RouteEnvelope.type = "SUBMISSION_REQUEST" /\ ZWasDown)
        => /\ RouteDecision.routing_decision = "ESCALATE_TO_HUMAN"
           /\ RouteDecision.severity = "CRITICAL"
           /\ RouteDecision.target = "human"
           /\ route_call.appended = 1
           /\ routing_log[Len(routing_log)].routing_decision = "ESCALATE_TO_HUMAN"
           /\ TimestampParses => route_call.outcome = "returned"

\* C1 witness: an URGENT submission request to healthy Rick while Z is in ERROR
\* is escalated.
C1_Witness ==
    /\ route_call.outcome = "returned"
    /\ RouteEnvelope.type = "SUBMISSION_REQUEST"
    /\ RouteEnvelope.priority = "URGENT"
    /\ RouteEnvelope.to = "Rick"
    /\ route_call.before["Z"].state = "ERROR"
    /\ TargetWasHealthy
    /\ RouteDecision.routing_decision = "ESCALATE_TO_HUMAN"
    /\ RouteDecision.severity = "CRITICAL"

\* C7: every call of route_message returns a Decision and appends exactly one
\* record to the routing log, whatever the envelope's timestamp (absent, naive,
\* unparseable) and also when the target's last_activity was set by an earlier
\* call; no record is appended without a Decision being returned.
C7_EveryCallReturnsAndLogsOnce ==
    RouteCalled => (route_call.outcome = "returned" /\ route_call.appended = 1)

\* C7, second case: a call never raises before it has logged a decision.
C7_NoCallRaisesUnlogged ==
    RouteCalled => route_call.appended = 1

\* C8: an URGENT message to a healthy target, the Z safety gate not firing,
\* gets ROUTE_IMMEDIATELY for that target with the SLA "Response within 15
\* minutes", whatever its type, its severity, Rick's queue, the dependency
\* graph and the age of Z's data; the decision is returned unless the
\* envelope's timestamp is no ISO datetime.
C8_UrgentRoutesImmediately ==
    (/\ RouteCalled
     /\ RouteEnvelope.priority = "URGENT"
     /\ TargetWasHealthy
     /\ ~ (RouteEnvelope.type = "SUBMISSION_REQUEST" /\ ZWasDown))
        => /\ RouteDecision.routing_decision = "ROUTE_IMMEDIATELY"
           /\ RouteDecision.target = RouteEnvelope.to
           /\ RouteDecision.sla = "Response within 15 minutes"
           /\ route_call.appended = 1
           /\ TimestampParses => route_call.outcome = "returned"

\* C8 witness: an URGENT CRITICAL alert to healthy Rick, whose queue is over the
\* threshold and who is not in the dependency graph, is routed immediately.
C8_Witness ==
    /\ route_call.outcome = "returned"
    /\ RouteEnvelope.priority = "URGENT"
    /\ RouteEnvelope.type = "ALERT"
    /\ RouteEnvelope.severity = "CRITICAL"
    /\ RouteEnvelope.to = "Rick"
    /\ TargetWasHealthy
    /\ route_call.before["Rick"].queue_depth > 30
    /\ "Rick" \notin dep_graph
    /\ RouteDecision.routing_decision = "ROUTE_IMMEDIATELY"
    /\ RouteDecision.sla = "Response within 15 minutes"

\* The target is unknown: no key of agent_states or no agent of the
\* dependency graph.
TargetUnknown ==
    \/ RouteEnvelope.to \notin DOMAIN route_call.before
    \/ RouteEnvelope.to \notin dep_graph

\* C9: a message for an unknown target gets a HOLD_* or ESCALATE_TO_HUMAN
\* decision with a reason; it is never routed immediately and the call never
\* raises.
C9_UnknownTargetNeverRouted ==
    (RouteCalled /\ TargetUnknown)
        => /\ route_call.outcome = "returned"
           /\ RouteDecision.routing_decision
                 \in {"HOLD_PENDING_INPUT", "HOLD_PENDING_CAPACITY", "ESCALATE_TO_HUMAN"}

\* C9, without the calls that raise on the envelope's timestamp: the decision
\* computed for an unknown target is never ROUTE_IMMEDIATELY.
C9_UnknownTargetDecision ==
    (RouteCalled /\ TargetUnknown /\ route_call.appended = 1)
        => RouteDecision.routing_decision # "ROUTE_IMMEDIATELY"

-----------------------------------------------------------------------------
(* Claims about Rick's gates, checked under SpecRick *)

RickReturned == rick_call.outcome = "returned"

\* C6: every decision that apply_hard_filters or check_cannibalization
\* returns is logged exactly once by that call: one record is appended to the
\* scoring log and it carries the returned decision.
C6_EveryDecisionLogged ==
    RickReturned
        => /\ rick_call.appended = 1
           /\ rick_scoring_log # <<>>
           /\ rick_scoring_log[Len(rick_scoring_log)].decision = rick_call.result.decision

\* C6, the part that holds: a call appends at most one record, and a record
\* it appends carries the decision it returns.
C6_LoggedAtMostOnce ==
    /\ rick_call.appended \in {0, 1}
    /\ rick_call.appended = 1
          => /\ RickReturned
             /\ rick_scoring_log[Len(rick_scoring_log)].decision
                   = rick_call.result.decision
             /\ rick_call.result.decision \in {"PASS", "ALLOW"}

-----------------------------------------------------------------------------
(* The do-not-submit lists of check_submission: bounds, inputs, specification *)

\* Entries in a request's do_not_submit list and in the master DNS list.
MaxDns == 1

\* The companies of DNS entries: " AC" is the request's client, "g" is not.
DnsCompanies == {<<" ", "A", "C">>, <<"g">>}

\* An entry of do_not_submit: a company string (no vendor key) or a dict that
\* is company-wide (vendor "") or scoped to the vendor "T " or "i".
OwnDnsEntries ==
    [company : DnsCompanies, vendor : {AbsentName, <<>>, <<"T", " ">>, <<"i">>}]

\* An entry of the master list, of the requesting consultant C1 or of C2.
MasterDnsEntries ==
    [consultant_id : {"C1", "C2"}, company : DnsCompanies,
     vendor : {<<>>, <<"T", " ">>, <<"i">>}]

OwnDnsLists == UNION {[1..n -> OwnDnsEntries] : n \in 0..MaxDns}

MasterDnsLists == UNION {[1..n -> MasterDnsEntries] : n \in 0..MaxDns}

\* Requests of C1 dated 2026-06-01, with and without end_client and
\* vendor_name, carrying a do_not_submit list.
DnsRequests ==
    [consultant_id : {"C1"}, end_client : {<<"a", "c">>, AbsentName},
     vendor_name : {<<"t">>, AbsentName}, job_posting_id : {"J1"},
     submission_date : {<<2026, 6, 1>>}, do_not_submit : OwnDnsLists]

\* Histories beside the DNS lists: empty, a rule-1 record (same client via
\* another vendor, 10 days old), a rule-2 record (same posting) and a record
\* of another consultant.
DnsHistories ==
    {<<>>,
     <<[consultant_id |-> "C1", end_client |-> <<" ", "A", "c">>,
        vendor_name |-> <<"i">>, job_posting_id |-> "J2",
        submission_date |-> RecentDate]>>,
     <<[consultant_id |-> "C1", end_client |-> <<"g">>,
        vendor_name |-> <<"T", " ">>, job_posting_id |-> "J1",
        submission_date |-> RecentDate]>>,
     <<[consultant_id |-> "C2", end_client |-> <<" ", "A", "c">>,
        vendor_name |-> <<"T", " ">>, job_posting_id |-> "J1",
        submission_date |-> RecentDate]>>}

\* One check_submission call on any history and master DNS list.
InitDns ==
    /\ submission_history \in DnsHistories
    /\ dns_list \in MasterDnsLists
    /\ dup_call = NoDupCall
    /\ callers = NoCallers
    /\ z_scoring_log = <<>>
    /\ RouteIdle
    /\ RickIdle

NextDns ==
    \E request \in DnsRequests :
        /\ dup_call.outcome = "none"
        /\ CheckSubmission(request)

SpecDns == InitDns /\ [][NextDns]_vars

-----------------------------------------------------------------------------
(* Claims about the do-not-submit lists *)

\* The entry names the request's end client.
NamesRequestClient(entry) ==
    UpperStrip(GetName(entry.company)) = UpperStrip(GetName(DupRequest.end_client))

\* The entry is scoped to a vendor.
VendorScoped(entry) == UpperStrip(GetName(entry.vendor)) # <<>>

\* The entry is scoped to the request's vendor.
NamesRequestVendor(entry) ==
    UpperStrip(GetName(entry.vendor)) = UpperStrip(GetName(DupRequest.vendor_name))

\* The entry bars this request: it is for the request's client and is
\* company-wide or scoped to the request's vendor.
BarsRequest(entry) ==
    /\ NamesRequestClient(entry)
    /\ VendorScoped(entry) => NamesRequestVendor(entry)

OwnBarring == SelectSeq(DupRequest.do_not_submit, BarsRequest)

BarsConsultant(entry) ==
    entry.consultant_id = DupRequest.consultant_id /\ BarsRequest(entry)

MasterBarring == SelectSeq(dns_list, BarsConsultant)

\* C11: a returned check_submission blocks under rule 5 exactly when an entry
\* of the request's do_not_submit list or of the master list is for the
\* request's consultant and end client and is company-wide or scoped to the
\* request's vendor; every other entry (scoped to another vendor, for another
\* client, of another consultant) leaves the decision as it is without it.
C11_DnsBlocksByVendorScope ==
    DupReturned =>
        /\ (OwnBarring # <<>> \/ MasterBarring # <<>>)
              => DupResult.decision = "BLOCK" /\ HasRule(5)
        /\ (OwnBarring = <<>> /\ MasterBarring = <<>>) => ~ HasRule(5)
        /\ DupResult.decision
              = CheckSubmissionResult([DupRequest EXCEPT !.do_not_submit = OwnBarring],
                                      submission_history, MasterBarring).decision

\* A request via vendor "t" is blocked by a master entry scoped to "T " while
\* its own list holds an entry scoped to "i".
C11_Witness ==
    /\ DupReturned
    /\ DupRequest.vendor_name = <<"t">>
    /\ Len(dns_list) = 1 /\ BarsConsultant(dns_list[1]) /\ VendorScoped(dns_list[1])
    /\ Len(DupRequest.do_not_submit) = 1
    /\ NamesRequestClient(DupRequest.do_not_submit[1])
    /\ ~ BarsRequest(DupRequest.do_not_submit[1])
    /\ DupResult.decision = "BLOCK"
    /\ Len(DupResult.rules_triggered) = 1

-----------------------------------------------------------------------------
(* Claims about apply_hard_filters, checked under SpecRick *)

HardFiltersCalled == rick_call.gate = "hard_filters"

\* The rules of apply_hard_filters that fire on the call's arguments, in the
\* order of the code: the rule_triggered value each of them stands for.
FiringRules ==
    LET candidate == rick_call.candidate
        job == rick_call.job
    IN  SelectSeq(
          <<[rule |-> "DNS_LIST_CONFLICT", decision |-> "ELIMINATE",
             fires |-> CheckDnsList(candidate, job, rick_dns) # 0],
            [rule |-> "CATEGORY_MISMATCH", decision |-> "ELIMINATE",
             fires |-> CheckCategoryMismatch(candidate, job)],
            [rule |-> "VISA_HARD_BLOCK", decision |-> "ELIMINATE",
             fires |-> CheckVisaHardBlock(candidate, job) = "block"],
            [rule |-> "ALREADY_SUBMITTED", decision |-> "ELIMINATE",
             fires |-> CheckAlreadySubmitted(candidate, job, rick_history, now).index # 0],
            [rule |-> "DAILY_LIMIT_REACHED", decision |-> "SKIP",
             fires |-> CheckDailyLimit(candidate, rick_history, now)]>>,
          LAMBDA r : r.fires)

\* The visa requirement of the call can be split into exclusions.
VisaRequirementSplits ==
    CheckVisaHardBlock(rick_call.candidate, rick_call.job) # "IndexError"

\* The returned decision is PASS when no rule fires, and otherwise the
\* decision and rule_triggered of the first rule that fires.
DecidedByFirstFiringRule ==
    /\ RickReturned
    /\ IF FiringRules = <<>>
       THEN /\ rick_call.result.decision = "PASS"
            /\ rick_call.result.rule_triggered = ""
       ELSE /\ rick_call.result.decision = FiringRules[1].decision
            /\ rick_call.result.rule_triggered = FiringRules[1].rule

\* C12: apply_hard_filters returns PASS exactly when no rule fires, SKIP with
\* DAILY_LIMIT_REACHED exactly when the daily cap is reached and no ELIMINATE
\* rule fires, and otherwise the decision and rule_triggered of the first
\* firing rule in the order DNS list, category mismatch, visa hard block,
\* already submitted, daily cap.
C12_FirstFiringRuleDecides ==
    (HardFiltersCalled /\ VisaRequirementSplits) => DecidedByFirstFiringRule

\* C12, the part that holds: the order and the SKIP and PASS cases are as
\* claimed for every call on which the visa hard block is not the first rule
\* that fires.
C12_OrderBesideVisaBlock ==
    (/\ HardFiltersCalled
     /\ VisaRequirementSplits
     /\ FiringRules # <<>> => FiringRules[1].rule # "VISA_HARD_BLOCK")
        => DecidedByFirstFiringRule

\* A call on which the daily cap is the only rule that fires returns SKIP.
C12_SkipReached ==
    /\ HardFiltersCalled
    /\ Len(FiringRules) = 1
    /\ rick_call.result.decision = "SKIP"


\* The candidate of the call has one of the job's required skills, letter
\* case aside.
SkillsOverlap ==
    \E i \in 1..Len(rick_call.candidate.skills),
       j \in 1..Len(rick_call.job.required_skills) :
        Lower(rick_call.candidate.skills[i]) = Lower(rick_call.job.required_skills[j])

\* C13: apply_hard_filters returns ELIMINATE whenever the job's required_skills
\* is non-empty and shares no skill, letter case aside, with the candidate's
\* skills; with an empty required_skills the rule CATEGORY_MISMATCH is never
\* the one triggered, whatever the candidate's skills.
C13_NoOverlapEliminates ==
    HardFiltersCalled =>
        /\ (rick_call.job.required_skills # <<>> /\ ~ SkillsOverlap)
              => RickReturned /\ rick_call.result.decision = "ELIMINATE"
        /\ rick_call.job.required_skills = <<>>
              => rick_call.result.rule_triggered # "CATEGORY_MISMATCH"

\* A candidate without any listed skill is eliminated for a job that requires
\* Java, with no DNS entry in the way.
C13_Witness ==
    /\ HardFiltersCalled
    /\ rick_call.candidate.skills = <<>>
    /\ rick_call.job.required_skills # <<>>
    /\ rick_dns = <<>>
    /\ rick_call.result.decision = "ELIMINATE"
    /\ rick_call.result.rule_triggered = "CATEGORY_MISMATCH"

-----------------------------------------------------------------------------
(* Claims about check_cannibalization, checked under SpecRick *)

CannibalizationCalled == rick_call.gate = "cannibalization"

ProposedApp == rick_call.proposed_app

\* The history record is an application of the proposed candidate to the
\* proposed client.
SameCandidateAndClient(app) ==
    /\ GetId(app.candidate_id) = GetId(ProposedApp.candidate_id)
    /\ Lower(GetName(app.client_name)) = Lower(GetName(ProposedApp.client_name))

\* The record carries a timestamp with UTC offset later than the instant.
StampedAfter(app, instant) ==
    app.submitted_date.kind = "aware" /\ app.submitted_date.t > instant

\* The candidate's applications to the proposed client dated today (after
\* today's 00:00 UTC).
ToClientToday ==
    {k \in 1..Len(rick_history) :
        /\ SameCandidateAndClient(rick_history[k])
        /\ StampedAfter(rick_history[k], (now \div MinutesPerDay) * MinutesPerDay)}

\* The history holds an application of the candidate to the proposed job.
AppliedToProposedJob ==
    \E k \in 1..Len(rick_history) :
        /\ GetId(rick_history[k].candidate_id) = GetId(ProposedApp.candidate_id)
        /\ GetId(rick_history[k].job_id) = GetId(ProposedApp.job_id)

\* The history holds an application of the candidate to the proposed client
\* via the proposed vendor in the last 7 days.
SameVendorThisWeek ==
    \E k \in 1..Len(rick_history) :
        /\ SameCandidateAndClient(rick_history[k])
        /\ Lower(GetName(rick_history[k].vendor_name))
              = Lower(GetName(ProposedApp.vendor_name))
        /\ StampedAfter(rick_history[k], now - 7 * MinutesPerDay)

\* The history holds an application of the candidate to the proposed client
\* under another (named) profile than the (named) proposed one.
OtherProfileUsed ==
    \E k \in 1..Len(rick_history) :
        /\ SameCandidateAndClient(rick_history[k])
        /\ GetId(rick_history[k].profile_id) # ""
        /\ GetId(ProposedApp.profile_id) # ""
        /\ GetId(rick_history[k].profile_id) # GetId(ProposedApp.profile_id)

C14_ThirdAllowedReached ==
    /\ CannibalizationCalled
    /\ Cardinality(ToClientToday) = 2
    /\ rick_call.result.decision = "ALLOW"

-----------------------------------------------------------------------------
(* check_cannibalization in serial use: every ALLOWed application is appended
   to the history before the next check *)

\* Applications in the history of a serial run.
MaxSerialHistory == 2

\* Clock steps of 8 days in a serial run.
MaxSerialSteps == 1

\* Applications proposed in a serial run: candidate K1 under profile P1, P2 or
\* none, to one client in two spellings, via two vendors, for two jobs.
SerialApps ==
    [candidate_id : {"K1"}, profile_id : {"P1", "P2", Absent},
     job_id : {"J1", "J2"}, client_name : {JobClient, HistoryClient},
     vendor_name : {<<"t">>, <<"i">>}]

\* The history record of an application submitted at the clock's instant.
ApplicationRecord(proposed_app, clock) ==
    [candidate_id |-> proposed_app.candidate_id, profile_id |-> proposed_app.profile_id,
     client_name |-> proposed_app.client_name, vendor_name |-> proposed_app.vendor_name,
     job_id |-> proposed_app.job_id, submitted_date |-> AwareStamp(clock)]

\* check_cannibalization(proposed_app, application_history), after which the
\* caller appends the application to the history when it was ALLOWed; the
\* history grows to `longest` records.
SubmitApplicationUpTo(proposed_app, longest) ==
    LET result == CheckCannibalizationResult(proposed_app, rick_history, now)
        logged == IF result.decision = "ALLOW"
                  THEN LogCannibalizationDecision(rick_scoring_log, proposed_app, result)
                  ELSE rick_scoring_log
    IN  /\ Len(rick_history) < longest
        /\ rick_scoring_log' = logged
        /\ rick_call' = [gate |-> "cannibalization", outcome |-> "returned",
                         candidate |-> NoCandidate, job |-> NoJob,
                         proposed_app |-> proposed_app, result |-> result,
                         appended |-> Len(logged) - Len(rick_scoring_log),
                         calls |-> IF rick_call.calls < MaxRickCalls
                                   THEN rick_call.calls + 1 ELSE rick_call.calls]
        /\ rick_history' = IF result.decision = "ALLOW"
                           THEN Append(rick_history, ApplicationRecord(proposed_app, now))
                           ELSE rick_history
        /\ UNCHANGED rick_dns
        /\ UNCHANGED <<dupVars, routeVars>>

SubmitApplication(proposed_app) ==
    SubmitApplicationUpTo(proposed_app, MaxSerialHistory)

\* Eight days pass between two checks.
EightDaysPass ==
    /\ now < RickNow + MaxSerialSteps * 8 * MinutesPerDay
    /\ now' = now + 8 * MinutesPerDay
    /\ UNCHANGED <<agent_states, data_freshness, dep_graph, route_call, routing_log,
                   agent_feed>>
    /\ UNCHANGED <<dupVars, rickVars>>

InitRickSerial ==
    /\ rick_history = <<>>
    /\ rick_dns = <<>>
    /\ rick_call = NoRickCall
    /\ rick_scoring_log = <<>>
    /\ agent_states = InitialAgentStates(RickNow)
    /\ data_freshness = 0
    /\ now = RickNow
    /\ dep_graph = KnownAgents
    /\ route_call = NoRouteCall
    /\ routing_log = <<>>
    /\ agent_feed = <<>>
    /\ DupIdle

NextRickSerial ==
    \/ \E proposed_app \in SerialApps : SubmitApplication(proposed_app)
    \/ EightDaysPass

SpecRickSerial == InitRickSerial /\ [][NextRickSerial]_vars

-----------------------------------------------------------------------------
(* Claims about check_cannibalization in serial use *)

\* The history the last check was given: the history without the application
\* appended after an ALLOW.
HistoryChecked ==
    IF rick_call.result.decision = "ALLOW"
    THEN SubSeq(rick_history, 1, Len(rick_history) - 1)
    ELSE rick_history

\* Two applications of one candidate to one client under two named profiles.
ProfilesDiffer(a, b) ==
    /\ GetId(a.candidate_id) = GetId(b.candidate_id)
    /\ Lower(GetName(a.client_name)) = Lower(GetName(b.client_name))
    /\ GetId(a.profile_id) # "" /\ GetId(b.profile_id) # ""
    /\ GetId(a.profile_id) # GetId(b.profile_id)

\* C15: check_cannibalization returns BLOCK whenever the history it is given
\* holds an application of the proposed candidate to the proposed client
\* under a profile other than the proposed one, however old; and in serial
\* use no two applications of the history are of one candidate to one client
\* under different profiles.
C15_OneProfilePerClientEver ==
    /\ CannibalizationCalled
          => ((\E k \in 1..Len(HistoryChecked) :
                  ProfilesDiffer(HistoryChecked[k], ProposedApp))
                 => rick_call.result.decision = "BLOCK")
    /\ \A i, j \in 1..Len(rick_history) :
          ~ ProfilesDiffer(rick_history[i], rick_history[j])

\* An application under profile P2 is blocked by rule 3 on the strength of an
\* application under P1 that is at least 8 days old.
C15_Witness ==
    /\ CannibalizationCalled
    /\ rick_call.result.rule_triggered = "ONE_PROFILE_PER_CLIENT_EVER"
    /\ rick_history # <<>>
    /\ \A k \in 1..Len(rick_history) :
          /\ ProfilesDiffer(rick_history[k], ProposedApp)
          /\ rick_history[k].submitted_date.t <= now - 8 * MinutesPerDay

-----------------------------------------------------------------------------
(* One call of a gate of Rick on a history of today's applications *)

\* Histories: up to MaxToday applications of today followed by at most one
\* other record.
RickDayHistories ==
    {TodayRecords(n, c) \o tail :
        n \in 0..MaxToday, c \in {HistoryClient, OtherClient},
        tail \in UNION {[1..m -> RickRecords] : m \in 0..1}}

InitRickDay ==
    /\ rick_history \in RickDayHistories
    /\ rick_dns \in RickDnsLists
    /\ rick_call = NoRickCall
    /\ rick_scoring_log = <<>>
    /\ agent_states = InitialAgentStates(RickNow)
    /\ data_freshness = 0
    /\ now = RickNow
    /\ dep_graph = KnownAgents
    /\ route_call = NoRouteCall
    /\ routing_log = <<>>
    /\ agent_feed = <<>>
    /\ DupIdle

NextRickDay ==
    \/ \E candidate \in Candidates, job \in Jobs :
          rick_call.gate = "none" /\ ApplyHardFilters(candidate, job)
    \/ \E proposed_app \in ProposedApps :
          rick_call.gate = "none" /\ CheckCannibalization(proposed_app)

SpecRickDay == InitRickDay /\ [][NextRickDay]_vars

-----------------------------------------------------------------------------
(* Claims about evaluating a request twice *)

\* The decision route_message computes for the envelope of the last call on
\* the present SystemState, a number of minutes from now.
RouteAgain(minutes) ==
    LET evaluated == EvaluateRules(RouteEnvelope, agent_states, data_freshness,
                                   dep_graph, now + minutes)
    IN  [evaluated EXCEPT !.sla = Sla(evaluated, RouteEnvelope)]

\* route_message: a second evaluation of the envelope, at once or 31 minutes
\* later, yields the decision the first one returned.
RouteTwiceAgrees ==
    route_call.outcome = "returned"
        => \A minutes \in {0, 31} : RouteAgain(minutes) = RouteDecision

\* check_submission: a second evaluation yields the result of the first.
SubmissionTwiceAgrees ==
    DupReturned
        => /\ ~ CheckSubmissionRaises(DupRequest, submission_history)
           /\ CheckSubmissionResult(DupRequest, submission_history, dns_list) = DupResult

\* apply_hard_filters: a second evaluation, at once or a day later, yields
\* the decision of the first.
FiltersTwiceAgrees ==
    (HardFiltersCalled /\ RickReturned)
        => \A minutes \in {0, MinutesPerDay} :
              ApplyHardFiltersResult(rick_call.candidate, rick_call.job, rick_history,
                                     rick_dns, now + minutes) = rick_call.result

\* check_cannibalization: a second evaluation, at once or a day later, yields
\* the decision of the first.
CannibalizationTwiceAgrees ==
    (CannibalizationCalled /\ RickReturned)
        => \A minutes \in {0, MinutesPerDay} :
              CheckCannibalizationResult(ProposedApp, rick_history, now + minutes)
                 = rick_call.result

\* C16: for each of the four gates, evaluating the request of a call again on
\* the same history, DNS list and agent state, whether at once or later,
\* yields the decision, rule and reason that the first evaluation returned.
C16_EvaluatingTwiceAgrees ==
    /\ RouteTwiceAgrees
    /\ SubmissionTwiceAgrees
    /\ FiltersTwiceAgrees
    /\ CannibalizationTwiceAgrees

\* C16, the part that holds: every gate repeats its decision when it is
\* evaluated again at the same instant, route_message provided that the
\* sender's last_activity was not changed by the first call.
C16_SameInstantAgrees ==
    /\ (route_call.outcome = "returned" /\ agent_states = route_call.before)
          => RouteAgain(0) = RouteDecision
    /\ SubmissionTwiceAgrees
    /\ (HardFiltersCalled /\ RickReturned)
          => ApplyHardFiltersResult(rick_call.candidate, rick_call.job, rick_history,
                                    rick_dns, now) = rick_call.result
    /\ (CannibalizationCalled /\ RickReturned)
          => CheckCannibalizationResult(ProposedApp, rick_history, now) = rick_call.result


-----------------------------------------------------------------------------
(* Claims about what the gates leave unchanged *)

\* C17: after a call of route_message every agent's state, last_activity and
\* queue_depth is what it was before the call.
C17_SystemStateUnchanged ==
    RouteCalled => agent_states = route_call.before

\* C17, the part that holds: a call changes nothing but the last_activity of
\* the sender, and that only when the sender is a known agent and the call
\* returns.
C17_OnlySenderActivityChanges ==
    RouteCalled =>
        \A agent_id \in DOMAIN agent_states :
            /\ agent_states[agent_id].state = route_call.before[agent_id].state
            /\ agent_states[agent_id].queue_depth = route_call.before[agent_id].queue_depth
            /\ agent_states[agent_id].last_activity # route_call.before[agent_id].last_activity
                  => /\ agent_id = GetAgent(RouteEnvelope.from)
                     /\ route_call.outcome = "returned"


-----------------------------------------------------------------------------
(* One call of each of the three gates that are given a history *)

InitGates ==
    /\ submission_history \in DnsHistories
    /\ dns_list \in DnsLists
    /\ dup_call = NoDupCall
    /\ callers = NoCallers
    /\ z_scoring_log = <<>>
    /\ rick_history \in {TodayRecords(n, HistoryClient) : n \in 0..MaxToday}
    /\ rick_dns \in RickDnsLists
    /\ rick_call = NoRickCall
    /\ rick_scoring_log = <<>>
    /\ agent_states = InitialAgentStates(RickNow)
    /\ data_freshness = 0
    /\ now = RickNow
    /\ dep_graph = KnownAgents
    /\ route_call = NoRouteCall
    /\ routing_log = <<>>
    /\ agent_feed = <<>>

NextGates ==
    \/ \E request \in Requests :
          dup_call.outcome = "none" /\ CheckSubmission(request)
    \/ \E candidate \in Candidates, job \in Jobs :
          rick_call.gate = "none" /\ ApplyHardFilters(candidate, job)
    \/ \E proposed_app \in ProposedApps :
          rick_call.gate = "none" /\ CheckCannibalization(proposed_app)

SpecGates == InitGates /\ [][NextGates]_vars

\* C18: no call of check_submission, apply_hard_filters or
\* check_cannibalization changes the history or the DNS list it is given:
\* both lists, and every record in them, are after the call what they were
\* before it, whatever the decision.
C18_GatesLeaveListsAlone ==
    [][/\ submission_history' = submission_history
       /\ dns_list' = dns_list
       /\ rick_history' = rick_history
       /\ rick_dns' = rick_dns]_vars

\* check_submission has allowed a request and a gate of Rick has allowed or
\* passed one, each on a history and a DNS list that hold records.
C18_Witness ==
    /\ DupReturned /\ DupResult.decision = "ALLOW"
    /\ RickReturned /\ rick_call.result.decision \in {"PASS", "ALLOW"}
    /\ submission_history # <<>> /\ dns_list # <<>>
    /\ rick_history # <<>> /\ rick_dns # <<>>


-----------------------------------------------------------------------------
(* One route_message call under any routing_rules.json *)

\* The rules files: loadable with a dependency graph, loadable without one,
\* missing, and no JSON.
RulesFiles == DepGraphs \cup {RulesWithoutGraph, RulesFileAbsent, RulesFileNotJson}

NextRules ==
    \/ \E envelope \in Envelopes :
          route_call.outcome = "none" /\ RouteMessage(envelope)
    \/ \E state \in HeartbeatStates :
          route_call.outcome = "none" /\ Heartbeat("Z", state)
    \/ \E file \in RulesFiles :
          route_call.outcome = "none" /\ EditRules(file)

SpecRules == InitRoute /\ [][NextRules]_vars

\* The call was made and raised before anything was logged or written.
RaisedUntouched ==
    /\ route_call.outcome = "raised"
    /\ route_call.decision = NoDecision
    /\ route_call.appended = 0
    /\ routing_log = <<>> /\ agent_feed = <<>>
    /\ agent_states = route_call.before

\* C19: when routing_rules.json is absent, is no valid JSON or holds no
\* dependency graph, route_message raises for every envelope, URGENT ones
\* included: it returns no decision, writes no audit record and leaves the
\* SystemState as it was.
C19_UnusableRulesRaise ==
    (RouteCalled /\ dep_graph \in {RulesFileAbsent, RulesFileNotJson, RulesWithoutGraph})
        => RaisedUntouched

\* C19, the part that holds: a rules file that is absent or no valid JSON
\* makes every call raise before anything is logged or written.
C19_UnreadableRulesRaise ==
    (RouteCalled /\ dep_graph \in {RulesFileAbsent, RulesFileNotJson})
        => RaisedUntouched /\ route_call.exception = LoadRules(dep_graph)

\* An URGENT envelope raised on a missing rules file.
C19_UnreadableReached ==
    /\ route_call.outcome = "raised"
    /\ dep_graph = RulesFileAbsent
    /\ RouteEnvelope.priority = "URGENT"


-----------------------------------------------------------------------------
(* Claims about requests that omit an optional field *)

\* A DNS entry, of the request's own list or of the master list, that names
\* the request's consultant and end client, whatever its vendor scope.
DnsEntryForClient ==
    \/ \E k \in 1..Len(DupRequest.do_not_submit) :
          NamesRequestClient(DupRequest.do_not_submit[k])
    \/ \E k \in 1..Len(dns_list) :
          /\ dns_list[k].consultant_id = DupRequest.consultant_id
          /\ NamesRequestClient(dns_list[k])

\* A DNS entry for the request's consultant, or a submission of the
\* consultant in the 90 days before the request: what rules 5 and 1 would
\* compare the end client with.
ClientRulesHaveMaterial ==
    \/ DupRequest.do_not_submit # <<>>
    \/ \E k \in 1..Len(dns_list) : dns_list[k].consultant_id = DupRequest.consultant_id
    \/ \E k \in 1..Len(submission_history) :
          /\ SameConsultant(submission_history[k])
          /\ IsIsoDate(submission_history[k].submission_date)
          /\ DaysBefore(submission_history[k]) \in 0..90

\* C20: a request without vendor_name is BLOCKed by every DNS entry for its
\* consultant and end client, vendor-scoped ones included; a request without
\* end_client is not ALLOWed while there are DNS entries or recent submissions
\* of its consultant that rules 5 and 1 could not compare it with.
C20_OmittedFieldNeverWeakens ==
    DupReturned =>
        /\ (DupRequest.vendor_name = AbsentName /\ DnsEntryForClient)
              => DupResult.decision = "BLOCK"
        /\ (DupRequest.end_client = AbsentName /\ ClientRulesHaveMaterial)
              => DupResult.decision # "ALLOW"

\* C20, the first half alone.
C20_NoVendorStillBlocked ==
    (DupReturned /\ DupRequest.vendor_name = AbsentName /\ DnsEntryForClient)
        => DupResult.decision = "BLOCK"

\* C20, the second half alone.
C20_NoClientNotCleared ==
    (DupReturned /\ DupRequest.end_client = AbsentName /\ ClientRulesHaveMaterial)
        => DupResult.decision # "ALLOW"


-----------------------------------------------------------------------------
(* Claims about history records whose date is missing or unparseable *)

\* A record of the request's consultant for the request's (known) end client
\* whose date is missing or is no ISO date: a record the window rules read.
BadDateRecord(record) ==
    /\ SameConsultant(record)
    /\ SameKnownClient(record)
    /\ record.submission_date = <<>> \/ ~ IsIsoDate(record.submission_date)

\* The result holds a LOG-class entry for the record.
HasLogEntryFor(record) ==
    \E k \in 1..Len(DupResult.rules_triggered) :
        /\ DupResult.rules_triggered[k].severity = "LOG"
        /\ DupResult.rules_triggered[k].conflicting_record = record

\* C21: check_submission skips a history record whose date is unparseable or
\* missing, reports the skip as a LOG-class entry of the returned decision,
\* and returns a decision instead of raising.
C21_BadDateSkippedAndLogged ==
    (dup_call.outcome # "none" /\ IsIsoDate(DupRequest.submission_date))
        => \A k \in 1..Len(submission_history) :
              BadDateRecord(submission_history[k])
                 => DupReturned /\ HasLogEntryFor(submission_history[k])

\* C21, the part that holds: a record without a date is skipped by rules 1
\* and 3 and the call returns, unless another record's date is unparseable.
C21_MissingDateSkipped ==
    (dup_call.outcome # "none" /\ AllDatesParse)
        => /\ DupReturned
           /\ \A k \in 1..Len(submission_history) :
                 submission_history[k].submission_date = <<>>
                    => /\ ~ HasEntry(1, submission_history[k])
                       /\ ~ HasEntry(3, submission_history[k])

\* C21, Rick's gates: no call raises on a record's date (the visa rule of
\* apply_hard_filters is the only source of exceptions).
C21_RickGatesSwallowBadDates ==
    rick_call.outcome = "raised"
        => /\ HardFiltersCalled
           /\ CheckVisaHardBlock(rick_call.candidate, rick_call.job) \in {"block", "IndexError"}


-----------------------------------------------------------------------------
(* Claims about the comparison of names *)

\* Two names that differ at most in case and in surrounding blanks.
SameNameUpToCaseAndBlanks(a, b) ==
    Lower(Strip(GetName(a))) = Lower(Strip(GetName(b)))

\* Two names that differ at most in case.
SameNameUpToCase(a, b) == Lower(GetName(a)) = Lower(GetName(b))

\* The DNS list bars the candidate of the call from a client whose name is
\* the job's under the comparison given.
DnsNamesJobClient(Same(_, _)) ==
    \E k \in 1..Len(rick_dns) :
        /\ GetId(rick_dns[k].consultant_id) = GetId(rick_call.candidate.candidate_id)
        /\ Same(rick_dns[k].client_name, rick_call.job.client_name)

\* The history holds an application of the proposed candidate of the last 7
\* days whose client and vendor are the proposed ones under the comparison
\* given.
AppliedThisWeek(Same(_, _)) ==
    \E k \in 1..Len(rick_history) :
        /\ GetId(rick_history[k].candidate_id) = GetId(ProposedApp.candidate_id)
        /\ Same(rick_history[k].client_name, ProposedApp.client_name)
        /\ Same(rick_history[k].vendor_name, ProposedApp.vendor_name)
        /\ StampedAfter(rick_history[k], now - 7 * MinutesPerDay)

\* C22: every comparison of client and vendor names made by the gates
\* ignores case and leading or trailing whitespace; in the gates of Rick: a
\* DNS entry of the candidate whose client is the job's up to case and
\* surrounding blanks eliminates the candidate as a DNS conflict, and an
\* application of the last 7 days to the same client via the same vendor, up
\* to case and surrounding blanks, blocks the proposed application.
C22_NamesMatchUpToCaseAndBlanks ==
    /\ (HardFiltersCalled /\ DnsNamesJobClient(SameNameUpToCaseAndBlanks))
          => rick_call.result.rule_triggered = "DNS_LIST_CONFLICT"
    /\ (CannibalizationCalled /\ AppliedThisWeek(SameNameUpToCaseAndBlanks))
          => rick_call.result.decision = "BLOCK"

\* What the gates of Rick do: names that differ in case only match.
C22_NamesMatchUpToCase ==
    /\ (HardFiltersCalled /\ DnsNamesJobClient(SameNameUpToCase))
          => rick_call.result.rule_triggered = "DNS_LIST_CONFLICT"
    /\ (CannibalizationCalled /\ AppliedThisWeek(SameNameUpToCase))
          => rick_call.result.decision = "BLOCK"

\* A candidate barred from the client spelled with a trailing blank passes
\* the DNS rule.
C22_PaddedNameMissed ==
    /\ HardFiltersCalled
    /\ DnsNamesJobClient(SameNameUpToCaseAndBlanks)
    /\ rick_call.result.rule_triggered # "DNS_LIST_CONFLICT"


-----------------------------------------------------------------------------
(* check_submission in serial use: the caller records what was not BLOCKed *)

\* Calls of check_submission in one run.
MaxSerialChecks == 3

\* Dates of the serial requests: 2026-01-01, and 90 and 91 days after it.
SerialDates == {<<2026, 1, 1>>, <<2026, 4, 1>>, <<2026, 4, 2>>}

\* Requests of consultant C1 for the client spelled "ac" via vendor "t" or
\* spelled " Ac" via vendor "i", for two postings, on every date, in any
\* order; and one request on 2026-04-01 that names no end client.
SerialRequests ==
    {q \in [consultant_id : {"C1"}, end_client : {<<"a", "c">>, <<" ", "A", "c">>},
            vendor_name : {<<"t">>, <<"i">>}, job_posting_id : {"J1", "J2"},
            submission_date : SerialDates, do_not_submit : {<<>>}] :
        q.vendor_name = <<"t">> <=> q.end_client = <<"a", "c">>}
    \cup {[consultant_id |-> "C1", end_client |-> AbsentName,
           vendor_name |-> <<"t">>, job_posting_id |-> "J3",
           submission_date |-> <<2026, 4, 1>>, do_not_submit |-> <<>>]}

\* The history record the caller makes of a request.
SubmissionRecord(request) ==
    [consultant_id |-> request.consultant_id,
     end_client |-> request.end_client,
     vendor_name |-> request.vendor_name,
     job_posting_id |-> request.job_posting_id,
     submission_date |-> request.submission_date]

\* The caller's step: check_submission on the history so far, and the request
\* appended to the history unless the decision is BLOCK.
SubmitRequest(request) ==
    LET result == CheckSubmissionResult(request, submission_history, dns_list)
    IN  /\ Len(z_scoring_log) < MaxSerialChecks
        /\ ~ CheckSubmissionRaises(request, submission_history)
        /\ z_scoring_log' = LogCheck(z_scoring_log, result)
        /\ dup_call' = [outcome |-> "returned", request |-> request,
                        result |-> result]
        /\ submission_history' =
              IF result.decision # "BLOCK"
              THEN Append(submission_history, SubmissionRecord(request))
              ELSE submission_history
        /\ UNCHANGED <<dns_list, callers>>
        /\ UNCHANGED <<routeVars, rickVars>>

\* A caller reads the submission history it will hand to check_submission.
ReadHistory(c, request) ==
    /\ callers[c].pc = "idle"
    /\ callers' = [callers EXCEPT ![c] = [pc |-> "read", request |-> request,
                                          history |-> submission_history,
                                          result |-> NoResult]]
    /\ UNCHANGED <<submission_history, dns_list, dup_call, z_scoring_log>>
    /\ UNCHANGED <<routeVars, rickVars>>

\* The caller's check as it would be if check_submission saw the history as
\* it is at the time of the call, not as the caller read it.
CheckCurrentHistory(c) ==
    LET request == callers[c].request
        result == CheckSubmissionResult(request, submission_history, dns_list)
    IN  /\ callers[c].pc = "read"
        /\ ~ CheckSubmissionRaises(request, submission_history)
        /\ z_scoring_log' = LogCheck(z_scoring_log, result)
        /\ dup_call' = [outcome |-> "returned", request |-> request,
                        result |-> result]
        /\ callers' = [callers EXCEPT ![c].pc = "checked", ![c].result = result]
        /\ UNCHANGED <<submission_history, dns_list>>
        /\ UNCHANGED <<routeVars, rickVars>>

\* The caller calls check_submission(request, history) on the history it
\* read; the gate takes no lock and looks at nothing else.
CheckWhatWasRead(c) ==
    LET request == callers[c].request
        result == CheckSubmissionResult(request, callers[c].history, dns_list)
    IN  /\ callers[c].pc = "read"
        /\ ~ CheckSubmissionRaises(request, callers[c].history)
        /\ z_scoring_log' = LogCheck(z_scoring_log, result)
        /\ dup_call' = [outcome |-> "returned", request |-> request,
                        result |-> result]
        /\ callers' = [callers EXCEPT ![c].pc = "checked", ![c].result = result]
        /\ UNCHANGED <<submission_history, dns_list>>
        /\ UNCHANGED <<routeVars, rickVars>>

\* The caller appends its request to the shared history when it was ALLOWed.
AppendOnAllow(c) ==
    /\ callers[c].pc = "checked"
    /\ callers' = [callers EXCEPT ![c].pc = "done"]
    /\ submission_history' =
          IF callers[c].result.decision = "ALLOW"
          THEN Append(submission_history, SubmissionRecord(callers[c].request))
          ELSE submission_history
    /\ UNCHANGED <<dns_list, dup_call, z_scoring_log>>
    /\ UNCHANGED <<routeVars, rickVars>>

InitDupSerial == DupIdle /\ RouteIdle /\ RickIdle

NextDupSerial == \E request \in SerialRequests : SubmitRequest(request)

SpecDupSerial == InitDupSerial /\ [][NextDupSerial]_vars

\* Two callers that take no turns: the steps of one may fall between the
\* steps of the other.
NextDupRace ==
    \/ \E c \in CallerIds, request \in SerialRequests : ReadHistory(c, request)
    \/ \E c \in CallerIds : CheckWhatWasRead(c)
    \/ \E c \in CallerIds : AppendOnAllow(c)

SpecDupRace == InitDupSerial /\ [][NextDupRace]_vars

\* Two history records of one consultant.
OneConsultant(a, b) == a.consultant_id = b.consultant_id

\* Two history records for one known end client.
OneKnownClient(a, b) ==
    /\ UpperStrip(GetName(a.end_client)) = UpperStrip(GetName(b.end_client))
    /\ UpperStrip(GetName(a.end_client)) # <<>>

\* The days between the dates of two history records.
DaysApart(a, b) ==
    LET d == DateOrdinal(a.submission_date) - DateOrdinal(b.submission_date)
    IN  IF d < 0 THEN -d ELSE d

\* C23: when the calls of check_submission are serialized and the caller
\* appends every request that was not BLOCKed before the next call, whatever
\* the order of the requests' dates, the history never holds two records of
\* one consultant for one job posting, nor two records of one consultant for
\* one non-empty end client dated 90 days or fewer apart.
C23_SerialHistoryKeepsRules ==
    \A i, j \in 1..Len(submission_history) :
        (i < j /\ OneConsultant(submission_history[i], submission_history[j]))
           => /\ submission_history[i].job_posting_id
                    # submission_history[j].job_posting_id
              /\ OneKnownClient(submission_history[i], submission_history[j])
                    => DaysApart(submission_history[i], submission_history[j]) > 90

\* The history holds two submissions to one client 91 days apart, and the
\* last request, to that client again, was BLOCKed and not recorded.
C23_Witness ==
    /\ Len(submission_history) = 2
    /\ OneKnownClient(submission_history[1], submission_history[2])
    /\ DaysApart(submission_history[1], submission_history[2]) = 91
    /\ dup_call.outcome = "returned"
    /\ dup_call.result.decision = "BLOCK"
    /\ OneKnownClient(submission_history[1], dup_call.request)


-----------------------------------------------------------------------------
(* check_cannibalization in serial use over a day and a week *)

\* Applications the history of one run can hold.
MaxDayHistory == 4

\* Applications of K1 under profile P1 to one client: four jobs, each via a
\* vendor of its own, and a fifth job via the vendor of the first.
DayApps ==
    {[candidate_id |-> "K1", profile_id |-> "P1", job_id |-> "J1",
      client_name |-> JobClient, vendor_name |-> <<"t">>],
     [candidate_id |-> "K1", profile_id |-> "P1", job_id |-> "J2",
      client_name |-> HistoryClient, vendor_name |-> <<"i">>],
     [candidate_id |-> "K1", profile_id |-> "P1", job_id |-> "J3",
      client_name |-> JobClient, vendor_name |-> <<"n">>],
     [candidate_id |-> "K1", profile_id |-> "P1", job_id |-> "J4",
      client_name |-> JobClient, vendor_name |-> <<"o">>],
     [candidate_id |-> "K1", profile_id |-> "P1", job_id |-> "J5",
      client_name |-> JobClient, vendor_name |-> <<"T">>]}

\* The instants of the calls: midnight UTC and the three minutes after it,
\* and the same day a week later at midnight and a minute after it.
CallInstants ==
    {TodayStart(RickNow) + m : m \in {0, 1, 2, 3, 7 * MinutesPerDay, 7 * MinutesPerDay + 1}}

\* Time passes between two calls.
TimePasses(instant) ==
    /\ instant > now
    /\ now' = instant
    /\ UNCHANGED <<agent_states, data_freshness, dep_graph, route_call, routing_log,
                   agent_feed>>
    /\ UNCHANGED <<dupVars, rickVars>>

\* The first call is made at midnight UTC.
InitRickClock ==
    /\ rick_history = <<>>
    /\ rick_dns = <<>>
    /\ rick_call = NoRickCall
    /\ rick_scoring_log = <<>>
    /\ agent_states = InitialAgentStates(TodayStart(RickNow))
    /\ data_freshness = 0
    /\ now = TodayStart(RickNow)
    /\ dep_graph = KnownAgents
    /\ route_call = NoRouteCall
    /\ routing_log = <<>>
    /\ agent_feed = <<>>
    /\ DupIdle

NextRickClock ==
    \/ \E proposed_app \in DayApps : SubmitApplicationUpTo(proposed_app, MaxDayHistory)
    \/ \E instant \in CallInstants : TimePasses(instant)

SpecRickClock == InitRickClock /\ [][NextRickClock]_vars

\* Two applications of one candidate.
OneCandidate(a, b) == GetId(a.candidate_id) = GetId(b.candidate_id)

\* Two applications to one client, names compared as the gate compares them.
OneClient(a, b) == Lower(GetName(a.client_name)) = Lower(GetName(b.client_name))

OneVendor(a, b) == Lower(GetName(a.vendor_name)) = Lower(GetName(b.vendor_name))

\* Two applications stamped on one UTC day.
OneUtcDay(a, b) == TodayStart(a.submitted_date.t) = TodayStart(b.submitted_date.t)

\* The history holds no two applications of one candidate to one job and no
\* two of one candidate to one client via one vendor less than 7 days apart.
JobAndWeekRulesKept ==
    \A i, j \in 1..Len(rick_history) :
        (i < j /\ OneCandidate(rick_history[i], rick_history[j]))
           => /\ GetId(rick_history[i].job_id) # GetId(rick_history[j].job_id)
              /\ (/\ OneClient(rick_history[i], rick_history[j])
                  /\ OneVendor(rick_history[i], rick_history[j]))
                    => rick_history[j].submitted_date.t - rick_history[i].submitted_date.t
                          >= 7 * MinutesPerDay

\* The applications of the history by the candidate, to the client and on
\* the UTC day of its i-th application.
SameDayApplications(i) ==
    {j \in 1..Len(rick_history) :
        /\ OneCandidate(rick_history[i], rick_history[j])
        /\ OneClient(rick_history[i], rick_history[j])
        /\ OneUtcDay(rick_history[i], rick_history[j])}

\* C24: when the calls of check_cannibalization are serialized, time only
\* moves forward and the caller appends every ALLOWed application stamped
\* with the current time, the history never holds two applications of one
\* candidate to one job posting, never two of one candidate to one client via
\* one vendor less than 7 days apart, and never more than 3 applications of
\* one candidate to one client on one UTC day.
C24_SerialHistoryKeepsRules ==
    /\ JobAndWeekRulesKept
    /\ \A i \in 1..Len(rick_history) : Cardinality(SameDayApplications(i)) <= 3

\* What holds: the job rule and the week rule are kept, and no UTC day has
\* more than 3 applications to one client stamped after its midnight.
C24_KeptAfterMidnight ==
    /\ JobAndWeekRulesKept
    /\ \A i \in 1..Len(rick_history) :
          Cardinality({j \in SameDayApplications(i) :
                          rick_history[j].submitted_date.t
                             > TodayStart(rick_history[j].submitted_date.t)}) <= 3

\* Four applications to one client stand in the history for one UTC day, the
\* first of them stamped at midnight.
C24_FourOnOneDay ==
    /\ Len(rick_history) = 4
    /\ Cardinality(SameDayApplications(1)) = 4
    /\ rick_history[1].submitted_date.t = TodayStart(now)

\* An application via the vendor of an earlier one is ALLOWed exactly 7 days
\* after it.
C24_SameVendorAfterAWeek ==
    \E i, j \in 1..Len(rick_history) :
        /\ i < j
        /\ OneVendor(rick_history[i], rick_history[j])
        /\ rick_history[j].submitted_date.t - rick_history[i].submitted_date.t
              = 7 * MinutesPerDay


-----------------------------------------------------------------------------
(* Claims about callers of check_submission that take no turns *)

\* Both callers are through, and both read the history before either
\* appended to it: each read the empty history the run starts with.
BothReadBeforeAppend ==
    \A c \in CallerIds : callers[c].pc = "done" /\ callers[c].history = <<>>

\* C25: the gates take no lock; when two callers each read the history, call
\* check_submission and append on ALLOW without serialization, and both read
\* the history before either appends, both receive ALLOW and both requests
\* end up in the history, for one consultant and one end client within 90
\* days as for any other two requests.
C25_UnserializedCallersBothAllowed ==
    BothReadBeforeAppend
       => /\ \A c \in CallerIds : callers[c].result.decision = "ALLOW"
          /\ Len(submission_history) = 2
          /\ \A c \in CallerIds :
                \E k \in 1..2 : submission_history[k] = SubmissionRecord(callers[c].request)

\* The interleaving: both callers read the empty history, both were ALLOWed
\* and the history ends with two submissions of the consultant to one client
\* one day apart.
C25_Witness ==
    /\ BothReadBeforeAppend
    /\ \A c \in CallerIds : callers[c].result.decision = "ALLOW"
    /\ Len(submission_history) = 2
    /\ OneConsultant(submission_history[1], submission_history[2])
    /\ OneKnownClient(submission_history[1], submission_history[2])
    /\ DaysApart(submission_history[1], submission_history[2]) = 1


-----------------------------------------------------------------------------
(* Claims about the order of the anti-cannibalization rules *)

\* The rules of check_cannibalization whose condition holds on the call's
\* arguments, in the order the gate names them.
HoldingRules ==
    SelectSeq(<<[rule |-> "ONE_CANDIDATE_PER_JOB", holds |-> AppliedToProposedJob],
                [rule |-> "ONE_CANDIDATE_PER_CLIENT_PER_VENDOR_PER_WEEK",
                 holds |-> SameVendorThisWeek],
                [rule |-> "ONE_PROFILE_PER_CLIENT_EVER", holds |-> OtherProfileUsed],
                [rule |-> "DIVERSIFY_ACROSS_CLIENTS",
                 holds |-> Cardinality(ToClientToday) >= 3]>>,
              LAMBDA r : r.holds)

\* C26: check_cannibalization is first-match-wins: rule_triggered is the
\* first of ONE_CANDIDATE_PER_JOB, ONE_CANDIDATE_PER_CLIENT_PER_VENDOR_PER_WEEK,
\* ONE_PROFILE_PER_CLIENT_EVER, DIVERSIFY_ACROSS_CLIENTS whose condition
\* holds; the decision is BLOCK iff at least one holds, and ALLOW with an
\* empty rule_triggered otherwise.
C26_FirstMatchWins ==
    CannibalizationCalled =>
        IF HoldingRules = <<>>
        THEN /\ rick_call.result.decision = "ALLOW"
             /\ rick_call.result.rule_triggered = ""
        ELSE /\ rick_call.result.decision = "BLOCK"
             /\ rick_call.result.rule_triggered = HoldingRules[1].rule

\* The call is decided by the job rule although the daily limit is reached
\* as well.
C26_Witness ==
    /\ CannibalizationCalled
    /\ Len(HoldingRules) >= 2
    /\ HoldingRules[Len(HoldingRules)].rule = "DIVERSIFY_ACROSS_CLIENTS"
    /\ rick_call.result.rule_triggered = "ONE_CANDIDATE_PER_JOB"


-----------------------------------------------------------------------------
(* Claims about the ALERT rule of the router *)

\* The call was made on an ALERT on which neither the Z safety gate (for
\* submission requests only) nor the URGENT rule applies.
AlertReachedRule3 ==
    /\ RouteCalled
    /\ route_call.exception \notin {"FileNotFoundError", "JSONDecodeError"}
    /\ RouteEnvelope.type = "ALERT"
    /\ RouteEnvelope.priority # "URGENT"

\* C27: an ALERT of payload severity CRITICAL or HIGH on which neither the Z
\* safety gate nor the URGENT rule applies is escalated to the human with that
\* severity on channel '#alerts', whatever the target's health, the dependency
\* graph, the queue depth and the data freshness (the decision is logged, and
\* returned unless the envelope's timestamp is no ISO datetime); an ALERT of
\* another severity or without one is not escalated by this rule.
C27_SevereAlertEscalates ==
    AlertReachedRule3 =>
        IF RouteEnvelope.severity \in {"CRITICAL", "HIGH"}
        THEN /\ RouteDecision.routing_decision = "ESCALATE_TO_HUMAN"
             /\ RouteDecision.severity = RouteEnvelope.severity
             /\ RouteDecision.channel = "#alerts"
             /\ RouteDecision.target = "human"
             /\ route_call.appended = 1
             /\ TimestampParses => route_call.outcome = "returned"
        ELSE /\ RouteDecision.channel # "#alerts"
             /\ TargetWasHealthy => RouteDecision.routing_decision # "ESCALATE_TO_HUMAN"

\* A HIGH alert to Rick is escalated on '#alerts' although Rick is DEAD, out
\* of the dependency graph and over the queue threshold, and Z's data is old.
C27_Witness ==
    /\ route_call.outcome = "returned"
    /\ RouteEnvelope.type = "ALERT"
    /\ RouteEnvelope.severity = "HIGH"
    /\ RouteEnvelope.to = "Rick"
    /\ route_call.before["Rick"].state = "DEAD"
    /\ route_call.before["Rick"].queue_depth > 30
    /\ "Rick" \notin dep_graph
    /\ data_freshness > 240
    /\ RouteDecision.routing_decision = "ESCALATE_TO_HUMAN"
    /\ RouteDecision.channel = "#alerts"

\* A LOW alert to a healthy target is routed.
C27_MildAlertRouted ==
    /\ route_call.outcome = "returned"
    /\ RouteEnvelope.type = "ALERT"
    /\ RouteEnvelope.severity = "LOW"
    /\ RouteDecision.routing_decision = "ROUTE_IMMEDIATELY"


-----------------------------------------------------------------------------
(* Claims about the capacity check of the router *)

\* The call reached the capacity check: a known, healthy target of the
\* dependency graph, and neither the Z safety gate nor the URGENT rule nor
\* the ALERT rule fired.
ReachedCapacityCheck ==
    /\ RouteCalled
    /\ ~ (RouteEnvelope.type = "SUBMISSION_REQUEST" /\ ZWasDown)
    /\ RouteEnvelope.priority # "URGENT"
    /\ ~ (RouteEnvelope.type = "ALERT" /\ RouteEnvelope.severity \in {"CRITICAL", "HIGH"})
    /\ TargetWasHealthy
    /\ RouteEnvelope.to \in dep_graph

\* The queue depth of the call's target when the call was made.
TargetQueueDepth == route_call.before[RouteEnvelope.to].queue_depth

\* C28: for every target agent, an envelope that reaches the capacity check
\* while the target's queue depth exceeds the threshold of 30 yields
\* HOLD_PENDING_CAPACITY; a queue depth equal to the threshold does not hold
\* the message.
C28_OverloadedTargetHolds ==
    ReachedCapacityCheck =>
        /\ TargetQueueDepth > 30
              => RouteDecision.routing_decision = "HOLD_PENDING_CAPACITY"
        /\ TargetQueueDepth <= 30
              => RouteDecision.routing_decision # "HOLD_PENDING_CAPACITY"

\* What the router does: the check is made for the target Rick alone.
C28_OverloadedRickHolds ==
    ReachedCapacityCheck =>
        /\ (RouteEnvelope.to = "Rick" /\ TargetQueueDepth > 30)
              => RouteDecision.routing_decision = "HOLD_PENDING_CAPACITY"
        /\ (RouteEnvelope.to # "Rick" \/ TargetQueueDepth <= 30)
              => RouteDecision.routing_decision # "HOLD_PENDING_CAPACITY"

\* A message to Jay is routed although Jay's queue holds 31 messages.
C28_OverloadedJayRouted ==
    /\ ReachedCapacityCheck
    /\ RouteEnvelope.to = "Jay"
    /\ TargetQueueDepth = 31
    /\ RouteDecision.routing_decision = "ROUTE_IMMEDIATELY"

\* A message to Rick is routed with 30 messages in Rick's queue.
C28_ThresholdRouted ==
    /\ ReachedCapacityCheck
    /\ RouteEnvelope.to = "Rick"
    /\ TargetQueueDepth = 30
    /\ RouteDecision.routing_decision = "ROUTE_IMMEDIATELY"


-----------------------------------------------------------------------------
(* Claims about the edges of the windows of Rick's gates *)

\* The record carries a timestamp with UTC offset of the calendar day that
\* lies `days` days before today.
StampedOnDayBefore(app, days) ==
    /\ app.submitted_date.kind = "aware"
    /\ TodayStart(app.submitted_date.t) = TodayStart(now) - days * MinutesPerDay

\* The history holds a submission of the call's candidate to the client of
\* the call's job that satisfies the test.
SubmittedToJobClient(Test(_)) ==
    \E k \in 1..Len(rick_history) :
        /\ GetId(rick_history[k].candidate_id) = GetId(rick_call.candidate.candidate_id)
        /\ Lower(GetName(rick_history[k].client_name))
              = Lower(GetName(rick_call.job.client_name))
        /\ Test(rick_history[k])

\* The history holds an application of the proposed candidate to the proposed
\* client via the proposed vendor that satisfies the test.
AppliedViaProposedVendor(Test(_)) ==
    \E k \in 1..Len(rick_history) :
        /\ SameCandidateAndClient(rick_history[k])
        /\ Lower(GetName(rick_history[k].vendor_name))
              = Lower(GetName(ProposedApp.vendor_name))
        /\ Test(rick_history[k])

\* C29: the windows of the first-match submission gates include their
\* boundary day: a prior submission to the same client dated exactly 90 days
\* before the evaluation keeps apply_hard_filters from passing the candidate,
\* and a prior application to the same client via the same vendor dated
\* exactly 7 days before the evaluation makes check_cannibalization BLOCK.
C29_WindowsIncludeBoundaryDay ==
    /\ (HardFiltersCalled
        /\ SubmittedToJobClient(LAMBDA app : StampedOnDayBefore(app, 90)))
          => rick_call.result.decision # "PASS"
    /\ (CannibalizationCalled
        /\ AppliedViaProposedVendor(LAMBDA app : StampedOnDayBefore(app, 7)))
          => rick_call.result.decision = "BLOCK"

\* What the gates do: the windows are 90 and 7 times 24 hours back from the
\* instant of the evaluation, and a record fires when it is stamped later
\* than that instant.
C29_WindowsOpenAtTheInstant ==
    /\ (HardFiltersCalled
        /\ SubmittedToJobClient(LAMBDA app : StampedAfter(app, now - 90 * MinutesPerDay)))
          => rick_call.result.decision # "PASS"
    /\ (CannibalizationCalled
        /\ AppliedViaProposedVendor(LAMBDA app : StampedAfter(app, now - 7 * MinutesPerDay)))
          => rick_call.result.decision = "BLOCK"

\* A candidate passes the hard filters although the history holds a
\* submission to the job's client stamped on the 90th day before today.
C29_BoundaryDayPasses ==
    /\ HardFiltersCalled
    /\ SubmittedToJobClient(LAMBDA app : StampedOnDayBefore(app, 90))
    /\ rick_call.result.decision = "PASS"

\* An application is ALLOWed although the history holds one via the same
\* vendor stamped on the 7th day before today.
C29_BoundaryDayAllowed ==
    /\ CannibalizationCalled
    /\ AppliedViaProposedVendor(LAMBDA app : StampedOnDayBefore(app, 7))
    /\ rick_call.result.decision = "ALLOW"


-----------------------------------------------------------------------------
(* Claims about the order of the evidence of check_submission *)

\* The rule numbers of rules_triggered, in the order of the list.
TriggeredRules ==
    [k \in 1..Len(DupResult.rules_triggered) |-> DupResult.rules_triggered[k].rule]

\* The place of a rule in the order the gate runs its rules: 5, 2, 1, 3, 4.
PlaceInCode(rule) ==
    CASE rule = 5 -> 1 [] rule = 2 -> 2 [] rule = 1 -> 3 [] rule = 3 -> 4 [] OTHER -> 5

\* C30: rules_triggered lists its entries in the rule order R1, R2, R3, R4,
\* R5: every entry of a lower-numbered rule precedes every entry of a
\* higher-numbered rule.
C30_EvidenceInRuleOrder ==
    DupReturned =>
        \A i, j \in 1..Len(TriggeredRules) :
            i < j => TriggeredRules[i] <= TriggeredRules[j]

\* What the gate returns: the entries stand in the order 5, 2, 1, 3, 4.
C30_EvidenceInCodeOrder ==
    DupReturned =>
        \A i, j \in 1..Len(TriggeredRules) :
            i < j => PlaceInCode(TriggeredRules[i]) <= PlaceInCode(TriggeredRules[j])

\* Rules 1 and 2 both fire and the entry of rule 2 stands first.
C30_Rule2BeforeRule1 ==
    /\ DupReturned
    /\ Len(TriggeredRules) >= 2
    /\ TriggeredRules[1] = 2
    /\ TriggeredRules[2] = 1

=============================================================================
